---- MODULE Spec2Model ----
(***************************************************************************)
(* External identity federation engine of the document-signing app:        *)
(*   - Token Lifecycle Manager  (getUserAccessToken / refreshAccessToken)  *)
(*   - Key Set Cache            (getJwks)                                  *)
(*   - JWT Verifier             (validateAuthentikJwt)                     *)
(* Source: packages/lib/server-only/cockpit/validate-jwt.ts                *)
(***************************************************************************)
EXTENDS Integers, Sequences, FiniteSets, TLC

(***************************************************************************)
(* Bounds of the model                                                     *)
(***************************************************************************)
\* concurrent request handlers
Procs == {1, 2}
\* total number of getUserAccessToken calls in one behaviour
MaxCalls == 2
\* total number of successful token-endpoint responses in one behaviour
MaxRefresh == 2
\* seconds the clock may advance in the token specification
MaxElapsedSec == 2

\* Date.now() at the start of a behaviour, in milliseconds
StartMs == 10000 * 1000
StartSec == StartMs \div 1000

\* JavaScript null / undefined of a nullable integer column or return value
NullInt == 0 - 1

(***************************************************************************)
(* Program constants                                                       *)
(***************************************************************************)
TOKEN_REFRESH_BUFFER_SECONDS == 5 * 60

\* expires_in of the token endpoint's responses: the access-token lifetime
\* configured at the provider (seconds)
ExpiresInChoices == {300}

(***************************************************************************)
(* State                                                                   *)
(***************************************************************************)
VARIABLES
    env,        \* process environment: which OIDC settings are configured
    nowMs,      \* Date.now()
    account,    \* the Account row of (userId, 'oidc'); id = 0 when there is none
    pc,         \* position of each getUserAccessToken call
    snap,       \* `account` as read by findFirst in each call
    checkNow,   \* the second in which each call tested the expiry
    tokenEndpoint, \* each call's resolved token endpoint (TRUE = a URL, FALSE = null)
    pending,    \* newAccessToken / newExpiresAt / newRefreshToken of each call
    result,     \* value returned by each call
    path,       \* which return statement each call left through
    net,        \* network requests each call has sent
    wrote,      \* whether each call has changed the Account row
    responses,  \* log of the token endpoint's successful responses
    lastWrite,  \* index in `responses` of the response persisted last (0 = none)
    beforeWrite,\* the Account row just before the last persisted write
    callCount,  \* getUserAccessToken calls started so far
    cachedJwks,       \* module-level cachedJwks: 0 = null, n = the n-th key set created
    jwksLastFetched,  \* module-level jwksLastFetched (milliseconds)
    vpc,        \* position of each validateAuthentikJwt call
    vtoken,     \* the token each call validates
    jwks,       \* what getJwks returned to each call (0 = null)
    gj,         \* record of each call's getJwks: the cache it found and what it did
    verifyNow,  \* the time (seconds) at which jose.jwtVerify judged each token
    keysOk,     \* whether the remote key set could be loaded during jwtVerify
    vresult,    \* outcome of each validateAuthentikJwt call
    fetchCount, \* key sets created so far
    vcallCount, \* validateAuthentikJwt calls started so far
    jwksTicks   \* clock steps taken in the key-set specification

\* SSO token route (session bootstrap)
VARIABLES
    users,       \* User table: the e-mail of each row, the row's id is its position
    ssoAccounts, \* Account table, provider 'oidc': [userId, sub] of each row
    sessions,    \* sessions created by onAuthorize: [userId, valid] (valid: the
                 \* provider accepted the token the session was created for)
    spc,         \* position of each /token request
    stok,        \* the bearer token of each request and what the provider says of it
    suser,       \* `user` of each request (0 = null)
    soutcome,    \* how each request ended: "success" or the error it raised
    schanged,    \* whether each request has changed users, accounts or sessions
    ssoCount     \* requests started so far

VARIABLES
    \* the provider's config records, in the order it lists them
    configs,
    \* the organisation's OrganisationGlobalSettings row; whether the user
    \* is a member of an organisation
    orgSettings, member,
    \* pull: position, the three fetched values, the requests that failed
    ppc, pmeta, plocale, puser, pfailed,
    \* pull: currentSettings as read, the row when the call began,
    \* updateData, the data of the update, the number of updates, the result
    currentSettings, pre, pdiff, pdata, pupdates, presult, pullCount,
    \* push, per caller: position, profile, settings, existingConfig?.id,
    \* the requests that failed, the POSTs sent, the result
    qpc, quser, qsettings, qexisting, qfailed, qsent, qresult,
    \* every request body sent to POST /configs; pushes begun
    posts, pushCount

VARIABLES
    \* the provider's directory, the Recipient rows and the team's member
    \* rows
    directory, recipientRows, memberRows,
    \* getRecipientSuggestions: position, arguments, the three fetched
    \* lists, the set and the list of the merge, the result
    gpc, gcall, cockpitSuggestions, recipients, teamMembers, seenEmails,
    allSuggestions, gresult,
    \* what became of the directory request; the route's response; the
    \* pages the client has received since its first page; calls begun
    gremote, gresponse, pages, suggestCount

ssoVars == <<users, ssoAccounts, sessions, spc, stok, suser, soutcome, schanged,
             ssoCount>>

suggestVars == <<directory, recipientRows, memberRows, gpc, gcall,
                 cockpitSuggestions, recipients, teamMembers, seenEmails,
                 allSuggestions, gresult, gremote, gresponse, pages,
                 suggestCount>>

syncVars == <<configs, orgSettings, member, ppc, pmeta, plocale, puser, pfailed,
              currentSettings, pre, pdiff, pdata, pupdates, presult, pullCount,
              qpc, quser, qsettings, qexisting, qfailed, qsent, qresult, posts,
              pushCount>>

vars == <<env, nowMs, account, pc, snap, checkNow, tokenEndpoint, pending,
          result, path, net, wrote, responses, lastWrite, beforeWrite, callCount,
          cachedJwks, jwksLastFetched, vpc, vtoken, jwks, gj, verifyNow, keysOk,
          vresult, fetchCount, vcallCount, jwksTicks, ssoVars, syncVars,
          suggestVars>>

jwksVars == <<cachedJwks, jwksLastFetched, vpc, vtoken, jwks, gj, verifyNow,
              keysOk, vresult, fetchCount, vcallCount, jwksTicks>>

\* what the token lifecycle manager never touches
notTokenVars == <<jwksVars, ssoVars, syncVars, suggestVars>>

tokenVars == <<account, pc, snap, checkNow, tokenEndpoint, pending, result,
               path, net, wrote, responses, lastWrite, beforeWrite, callCount>>

\* what the key set cache and the verifier never touch
notJwksVars == <<tokenVars, ssoVars, syncVars, suggestVars>>

\* what the SSO token route never touches
notSsoVars == <<tokenVars, jwksVars, nowMs, syncVars, suggestVars>>

(***************************************************************************)
(* Account rows                                                            *)
(***************************************************************************)
NoAccount ==
    [id |-> 0, access_token |-> NullInt, refresh_token |-> NullInt, expires_at |-> NullInt]

NoPending ==
    [access_token |-> NullInt, refresh_token |-> NullInt, expires_at |-> NullInt]

\* Account rows a federation login can have left behind: the SSO token route
\* stores an access token only; the OAuth callback also stores expiry and,
\* with offline access, a refresh token.
InitialAccounts ==
    {NoAccount} \cup
    { [id |-> 1, access_token |-> 0, refresh_token |-> r, expires_at |-> e] :
        r \in {NullInt, 0},
        e \in {NullInt, 0, StartSec - 1000,
               StartSec + TOKEN_REFRESH_BUFFER_SECONDS,
               StartSec + TOKEN_REFRESH_BUFFER_SECONDS + 1} }

Envs == [wellKnown : BOOLEAN, clientId : BOOLEAN, clientSecret : BOOLEAN]

(***************************************************************************)
(* Pure helpers of getUserAccessToken / refreshAccessToken                 *)
(***************************************************************************)
\* Math.floor(Date.now() / 1000) with the unit conversion forgotten
NowSeconds_NoDivide(ms) == ms

\* Math.floor(Date.now() / 1000)
NowSeconds(ms) == ms \div 1000

\* account.expires_at ?? 0
ExpiresAtOrZero(e) == IF e = NullInt THEN 0 ELSE e

\* !account?.access_token
HasAccessToken(acc) == acc.id # 0 /\ acc.access_token # NullInt

\* isExpired with the boundary included
IsExpired_Inclusive(expiresAt, now) ==
    expiresAt > 0 /\ expiresAt - TOKEN_REFRESH_BUFFER_SECONDS <= now

\* const isExpired = expiresAt > 0 && expiresAt - TOKEN_REFRESH_BUFFER_SECONDS < now
IsExpired(expiresAt, now) ==
    expiresAt > 0 /\ expiresAt - TOKEN_REFRESH_BUFFER_SECONDS < now

\* if (isExpired && account.refresh_token)
ShouldRefresh(acc, now) ==
    IsExpired(ExpiresAtOrZero(acc.expires_at), now) /\ acc.refresh_token # NullInt

\* the fallback returning null instead of the old token
StaleTokenFallback_Null(acc) == NullInt

\* "If refresh failed, return the old token": return account.access_token
StaleTokenFallback(acc) == acc.access_token

\* Math.floor(tokens.accessTokenExpiresAt().getTime() / 1000), where
\* accessTokenExpiresAt() is Date.now() + expires_in * 1000
NewExpiresAt(ms, expiresIn) == (ms + expiresIn * 1000) \div 1000

\* the update always writing refresh_token, also when none was returned
UpdatedAccount_AlwaysRefreshToken(acc, p) ==
    [acc EXCEPT !.access_token = p.access_token,
                !.expires_at = p.expires_at,
                !.refresh_token = p.refresh_token]

\* the update keeping the larger of the old and new expiry
UpdatedAccount_MaxExpiry(acc, p) ==
    [acc EXCEPT !.access_token = p.access_token,
                !.expires_at = IF ExpiresAtOrZero(acc.expires_at) > p.expires_at
                               THEN acc.expires_at ELSE p.expires_at,
                !.refresh_token = IF p.refresh_token # NullInt
                                  THEN p.refresh_token ELSE acc.refresh_token]

\* prisma.account.update({ data: { access_token, expires_at,
\*                                 ...(newRefreshToken ? { refresh_token } : {}) } })
UpdatedAccount(acc, p) ==
    [acc EXCEPT !.access_token = p.access_token,
                !.expires_at = p.expires_at,
                !.refresh_token = IF p.refresh_token # NullInt
                                  THEN p.refresh_token ELSE acc.refresh_token]

(***************************************************************************)
(* getUserAccessToken, one action per await                                *)
(***************************************************************************)
\* shared tail: the call of p returns `r` through return statement `how`
Finish(p, r, how) ==
    /\ pc' = [pc EXCEPT ![p] = "done"]
    /\ result' = [result EXCEPT ![p] = r]
    /\ path' = [path EXCEPT ![p] = how]

\* await prisma.account.findFirst(...)
FindAccount(p) ==
    /\ pc[p] = "idle"
    /\ callCount < MaxCalls
    /\ callCount' = callCount + 1
    /\ pc' = [pc EXCEPT ![p] = "check"]
    /\ snap' = [snap EXCEPT ![p] = account]
    /\ UNCHANGED <<notTokenVars, env, nowMs, account, checkNow, tokenEndpoint, pending, result,
                   path, net, wrote, responses, lastWrite, beforeWrite>>

\* the synchronous part after findFirst, up to the first await of
\* refreshAccessToken (the discovery fetch of getTokenEndpoint)
CheckExpiry(p) ==
    /\ pc[p] = "check"
    /\ checkNow' = [checkNow EXCEPT ![p] = nowMs \div 1000]
    /\ IF ~HasAccessToken(snap[p])
       THEN Finish(p, NullInt, "no_token") /\ UNCHANGED net
       ELSE IF ShouldRefresh(snap[p], NowSeconds(nowMs))
            THEN IF env.wellKnown
                 THEN /\ pc' = [pc EXCEPT ![p] = "discovery"]
                      /\ net' = [net EXCEPT ![p] = @ \cup {"discovery"}]
                      /\ UNCHANGED <<result, path>>
                 ELSE \* getTokenEndpoint returns null without fetching
                      Finish(p, StaleTokenFallback(snap[p]), "refresh_failed")
                      /\ UNCHANGED net
            ELSE Finish(p, snap[p].access_token, "fast") /\ UNCHANGED net
    /\ UNCHANGED <<notTokenVars, env, nowMs, account, snap, tokenEndpoint, pending, wrote,
                   responses, lastWrite, beforeWrite, callCount>>

\* getTokenEndpoint's fetch settles; then the configuration check of
\* refreshAccessToken and the request to the token endpoint
DiscoveryDone(p, doc) ==
    /\ pc[p] = "discovery"
    /\ tokenEndpoint' = [tokenEndpoint EXCEPT ![p] = (doc = "token_endpoint")]
    /\ IF ~env.clientId \/ ~env.clientSecret \/ doc # "token_endpoint"
       THEN Finish(p, StaleTokenFallback(snap[p]), "refresh_failed") /\ UNCHANGED net
       ELSE /\ pc' = [pc EXCEPT ![p] = "token"]
            /\ net' = [net EXCEPT ![p] = @ \cup {"token"}]
            /\ UNCHANGED <<result, path>>
    /\ UNCHANGED <<notTokenVars, env, nowMs, account, snap, checkNow, pending, wrote,
                   responses, lastWrite, beforeWrite, callCount>>

\* oAuthClient.refreshAccessToken throws (network error, error response,
\* response without access_token or expires_in)
TokenFailed(p) ==
    /\ pc[p] = "token"
    /\ Finish(p, StaleTokenFallback(snap[p]), "refresh_failed")
    /\ UNCHANGED <<notTokenVars, env, nowMs, account, snap, checkNow, tokenEndpoint, pending,
                   net, wrote, responses, lastWrite, beforeWrite, callCount>>

\* oAuthClient.refreshAccessToken resolves; the new values are computed and
\* prisma.account.update is issued
TokenGranted(p, expiresIn, rotated) ==
    /\ pc[p] = "token"
    /\ Len(responses) < MaxRefresh
    /\ LET n == Len(responses) + 1
           r == [access_token |-> n,
                 expires_at |-> NewExpiresAt(nowMs, expiresIn),
                 refresh_token |-> IF rotated THEN n ELSE NullInt]
       IN /\ responses' = Append(responses, r)
          /\ pending' = [pending EXCEPT ![p] = r]
    /\ pc' = [pc EXCEPT ![p] = "update"]
    /\ UNCHANGED <<notTokenVars, env, nowMs, account, snap, checkNow, tokenEndpoint, result,
                   path, net, wrote, lastWrite, beforeWrite, callCount>>

\* prisma.account.update commits and refreshAccessToken returns newAccessToken
UpdateCommitted(p) ==
    /\ pc[p] = "update"
    /\ account' = UpdatedAccount(account, pending[p])
    /\ wrote' = [wrote EXCEPT ![p] = @ \/ (account' # account)]
    /\ beforeWrite' = account
    /\ lastWrite' = pending[p].access_token
    /\ Finish(p, pending[p].access_token, "refreshed")
    /\ UNCHANGED <<notTokenVars, env, nowMs, snap, checkNow, tokenEndpoint, pending, net,
                   responses, callCount>>

\* prisma.account.update throws; nothing is written
UpdateFailed(p) ==
    /\ pc[p] = "update"
    /\ Finish(p, StaleTokenFallback(snap[p]), "refresh_failed")
    /\ UNCHANGED <<notTokenVars, env, nowMs, account, snap, checkNow, tokenEndpoint, pending,
                   net, wrote, responses, lastWrite, beforeWrite, callCount>>

\* the caller has its value; the handler is free for the next request
Return(p) ==
    /\ pc[p] = "done"
    /\ pc' = [pc EXCEPT ![p] = "idle"]
    /\ snap' = [snap EXCEPT ![p] = NoAccount]
    /\ checkNow' = [checkNow EXCEPT ![p] = 0]
    /\ tokenEndpoint' = [tokenEndpoint EXCEPT ![p] = FALSE]
    /\ pending' = [pending EXCEPT ![p] = NoPending]
    /\ result' = [result EXCEPT ![p] = NullInt]
    /\ path' = [path EXCEPT ![p] = "none"]
    /\ net' = [net EXCEPT ![p] = {}]
    /\ wrote' = [wrote EXCEPT ![p] = FALSE]
    /\ UNCHANGED <<notTokenVars, env, nowMs, account, responses, lastWrite, beforeWrite, callCount>>

\* one second passes
TickSecond ==
    /\ nowMs + 1000 <= StartMs + MaxElapsedSec * 1000
    /\ nowMs' = nowMs + 1000
    /\ UNCHANGED <<notTokenVars, env, tokenVars>>

(***************************************************************************)
(* Key Set Cache (getJwks) and JWT Verifier (validateAuthentikJwt)         *)
(***************************************************************************)
JWKS_CACHE_TTL == 60 * 60 * 1000

\* total number of validateAuthentikJwt calls in one behaviour
MaxValidations == 3
\* number of clock steps in the key-set specification
MaxJwksTicks == 3

\* how far one clock step of the key-set specification advances Date.now()
JwksClockSteps == {1, JWKS_CACHE_TTL - 1}

\* key ids published in the provider's key set
ProviderKeys == {1}

\* what a token's `email` claim can be: absent, not a string, "", a string
\* that is no e-mail address, an e-mail address
EmailClaims == {"<undefined>", "<number>", "", "not-an-email", "a@x.com"}

\* bearer tokens presented to validateAuthentikJwt: one that is in order
\* (expiring in an hour, or carrying no exp at all) and one for each defect
GoodToken == [wellformed |-> TRUE, kid |-> 1, exp |-> StartSec + 3600, email |-> "a@x.com"]

Tokens ==
    {GoodToken,
     [GoodToken EXCEPT !.exp = NullInt],
     [GoodToken EXCEPT !.wellformed = FALSE],
     [GoodToken EXCEPT !.kid = 2],
     [GoodToken EXCEPT !.exp = StartSec]} \cup
    {[GoodToken EXCEPT !.email = e] : e \in EmailClaims}

NoToken == [wellformed |-> FALSE, kid |-> 1, exp |-> NullInt, email |-> "<undefined>"]

NoGetJwks ==
    [called |-> FALSE, fetched |-> FALSE, cachedAtCall |-> 0, lastAtCall |-> 0,
     nowAtCall |-> 0, refreshInFlight |-> FALSE, cachedAtReturn |-> 0,
     lastAtReturn |-> 0]

NoResult == [kind |-> "none", email |-> "<undefined>"]
NullResult == [kind |-> "null", email |-> "<undefined>"]
Thrown == [kind |-> "throws", email |-> "<undefined>"]

\* the cache test with the boundary included
JwksCacheValid_Inclusive(cached, last, now) ==
    cached # 0 /\ now - last <= JWKS_CACHE_TTL

\* if (cachedJwks && Date.now() - jwksLastFetched < JWKS_CACHE_TTL)
JwksCacheValid(cached, last, now) ==
    cached # 0 /\ now - last < JWKS_CACHE_TTL

\* jose.jwtVerify(token, jwks, {}): rejects on a malformed token, on a key set
\* that cannot be loaded or holds no key for the signature, and on exp <= now;
\* no issuer or audience is required
JwtVerify(tok, nowSec, loaded) ==
    IF ~tok.wellformed THEN "throws"
    ELSE IF ~loaded \/ tok.kid \notin ProviderKeys THEN "throws"
    ELSE IF tok.exp # NullInt /\ tok.exp <= nowSec THEN "throws"
    ELSE "ok"

\* !payload.email
EmailFalsy(e) == e \in {"<undefined>", ""}

\* if (!payload.email || typeof payload.email !== 'string') return null;
\* return { ..., email: payload.email, ... }
ClaimsOf(tok) ==
    IF EmailFalsy(tok.email) \/ tok.email = "<number>"
    THEN NullResult
    ELSE [kind |-> "payload", email |-> tok.email]

\* validateAuthentikJwt without its try/catch
Caught_Rethrow(r) == r

\* try { ... } catch (error) { console.warn(...); return null; }
Caught(r) == IF r.kind = "throws" THEN NullResult ELSE r

\* the body of validateAuthentikJwt after getJwks returned a key set
VerifiedResult(tok, nowSec, loaded) ==
    Caught(IF JwtVerify(tok, nowSec, loaded) = "throws" THEN Thrown ELSE ClaimsOf(tok))

\* validateAuthentikJwt(token) up to the first await: getJwks runs to its
\* first await (the discovery fetch) or returns (no configuration, cache hit)
ValidateStart(p, tok) ==
    /\ vpc[p] = "idle"
    /\ vcallCount < MaxValidations
    /\ vcallCount' = vcallCount + 1
    /\ vtoken' = [vtoken EXCEPT ![p] = tok]
    /\ LET hit == JwksCacheValid(cachedJwks, jwksLastFetched, nowMs)
           rec == [called |-> TRUE,
                   fetched |-> env.wellKnown /\ ~hit,
                   cachedAtCall |-> cachedJwks,
                   lastAtCall |-> jwksLastFetched,
                   nowAtCall |-> nowMs,
                   refreshInFlight |-> \E q \in Procs \ {p} : vpc[q] = "fetch",
                   cachedAtReturn |-> cachedJwks,
                   lastAtReturn |-> jwksLastFetched]
       IN /\ gj' = [gj EXCEPT ![p] = rec]
          /\ IF ~env.wellKnown
             THEN \* getJwks returns null; validateAuthentikJwt returns null
                  /\ jwks' = [jwks EXCEPT ![p] = 0]
                  /\ vpc' = [vpc EXCEPT ![p] = "done"]
                  /\ vresult' = [vresult EXCEPT ![p] = Caught(NullResult)]
             ELSE IF hit
                  THEN /\ jwks' = [jwks EXCEPT ![p] = cachedJwks]
                       /\ vpc' = [vpc EXCEPT ![p] = "verify"]
                       /\ UNCHANGED vresult
                  ELSE /\ vpc' = [vpc EXCEPT ![p] = "fetch"]
                       /\ UNCHANGED <<jwks, vresult>>
    /\ UNCHANGED <<notJwksVars, env, nowMs, cachedJwks, jwksLastFetched,
                   verifyNow, keysOk, fetchCount, jwksTicks>>

\* the discovery document arrives with a jwks_uri: a key set is created and
\* cached, and getJwks returns it
JwksFetched(p) ==
    /\ vpc[p] = "fetch"
    /\ fetchCount' = fetchCount + 1
    /\ cachedJwks' = fetchCount + 1
    /\ jwksLastFetched' = nowMs
    /\ jwks' = [jwks EXCEPT ![p] = fetchCount + 1]
    /\ gj' = [gj EXCEPT ![p].cachedAtReturn = fetchCount + 1,
                        ![p].lastAtReturn = nowMs]
    /\ vpc' = [vpc EXCEPT ![p] = "verify"]
    /\ UNCHANGED <<notJwksVars, env, nowMs, vtoken, verifyNow, keysOk, vresult,
                   vcallCount, jwksTicks>>

\* the discovery fetch fails (how = "throws": fetch or json() rejects, or the
\* jwks_uri is no URL) or the document has no jwks_uri: getJwks returns null,
\* and so does validateAuthentikJwt
JwksFetchFailed(p, how) ==
    /\ vpc[p] = "fetch"
    /\ jwks' = [jwks EXCEPT ![p] = 0]
    /\ gj' = [gj EXCEPT ![p].cachedAtReturn = cachedJwks,
                        ![p].lastAtReturn = jwksLastFetched]
    /\ vpc' = [vpc EXCEPT ![p] = "done"]
    /\ vresult' = [vresult EXCEPT ![p] = Caught(NullResult)]
    /\ UNCHANGED <<notJwksVars, env, nowMs, cachedJwks, jwksLastFetched, vtoken,
                   verifyNow, keysOk, fetchCount, vcallCount, jwksTicks>>

\* await jose.jwtVerify(token, jwks, {}) settles, then the email check
VerifyDone(p, loaded) ==
    /\ vpc[p] = "verify"
    /\ verifyNow' = [verifyNow EXCEPT ![p] = nowMs \div 1000]
    /\ keysOk' = [keysOk EXCEPT ![p] = loaded]
    /\ vresult' = [vresult EXCEPT ![p] = VerifiedResult(vtoken[p], NowSeconds(nowMs), loaded)]
    /\ vpc' = [vpc EXCEPT ![p] = "done"]
    /\ UNCHANGED <<notJwksVars, env, nowMs, cachedJwks, jwksLastFetched, vtoken,
                   jwks, gj, fetchCount, vcallCount, jwksTicks>>

\* the caller has its answer; the handler is free for the next request
ValidateReturn(p) ==
    /\ vpc[p] = "done"
    /\ vpc' = [vpc EXCEPT ![p] = "idle"]
    /\ vtoken' = [vtoken EXCEPT ![p] = NoToken]
    /\ jwks' = [jwks EXCEPT ![p] = 0]
    /\ gj' = [gj EXCEPT ![p] = NoGetJwks]
    /\ verifyNow' = [verifyNow EXCEPT ![p] = 0]
    /\ keysOk' = [keysOk EXCEPT ![p] = FALSE]
    /\ vresult' = [vresult EXCEPT ![p] = NoResult]
    /\ UNCHANGED <<notJwksVars, env, nowMs, cachedJwks, jwksLastFetched,
                   fetchCount, vcallCount, jwksTicks>>

\* time passes
TickJwks(d) ==
    /\ jwksTicks < MaxJwksTicks
    /\ jwksTicks' = jwksTicks + 1
    /\ nowMs' = nowMs + d
    /\ UNCHANGED <<tokenVars, ssoVars, syncVars, suggestVars, env, cachedJwks,
                   jwksLastFetched,
                   vpc, vtoken, jwks, gj, verifyNow, keysOk, vresult, fetchCount,
                   vcallCount>>

\* the process has just started: nothing cached, no call made
JwksIdle ==
    /\ cachedJwks = 0
    /\ jwksLastFetched = 0
    /\ vpc = [p \in Procs |-> "idle"]
    /\ vtoken = [p \in Procs |-> NoToken]
    /\ jwks = [p \in Procs |-> 0]
    /\ gj = [p \in Procs |-> NoGetJwks]
    /\ verifyNow = [p \in Procs |-> 0]
    /\ keysOk = [p \in Procs |-> FALSE]
    /\ vresult = [p \in Procs |-> NoResult]
    /\ fetchCount = 0
    /\ vcallCount = 0
    /\ jwksTicks = 0

(***************************************************************************)
(* SSO token route (ssoRoute, POST /token): session bootstrap              *)
(***************************************************************************)
\* total number of /token requests in one behaviour
MaxSsoRequests == 3

\* Bearer tokens presented to the route, by what the provider's userinfo
\* endpoint answers: ok = a 2xx response; email, sub = the claims of the
\* response (0 = absent); hasName = name or preferred_username is present.
SsoTokens ==
    {[ok |-> FALSE, email |-> 0, sub |-> 0, hasName |-> FALSE],
     [ok |-> TRUE, email |-> 1, sub |-> 1, hasName |-> TRUE],
     [ok |-> TRUE, email |-> 1, sub |-> 2, hasName |-> FALSE],
     [ok |-> TRUE, email |-> 0, sub |-> 1, hasName |-> TRUE],
     [ok |-> TRUE, email |-> 0, sub |-> 1, hasName |-> FALSE],
     [ok |-> TRUE, email |-> 1, sub |-> 0, hasName |-> TRUE]}

NoSsoToken == [ok |-> FALSE, email |-> 0, sub |-> 0, hasName |-> FALSE]

\* prisma.user.findFirst({ where: { email } }): the id of a row, 0 for null
FindUser(us, email) ==
    IF \E i \in 1..Len(us) : us[i] = email
    THEN CHOOSE i \in 1..Len(us) : us[i] = email /\ \A j \in 1..(i - 1) : us[j] # email
    ELSE 0

\* prisma.account.findFirst({ where: { provider, userId } }) found a row
HasLinkedAccount(rows, userId) ==
    \E i \in 1..Len(rows) : rows[i].userId = userId

\* the credential table accepting a second row for the same key
AccountKeyTaken_NoKey(rows, userId) == FALSE

\* the credential table is keyed by (userId, providerKind): a second row for
\* the same key is refused
AccountKeyTaken(rows, userId) ==
    \E i \in 1..Len(rows) : rows[i].userId = userId

\* the response check left out
UserinfoOk_Unchecked(tok) == TRUE

\* userinfoResponse.ok
UserinfoOk(tok) == tok.ok

\* userinfo.name || userinfo.preferred_username || email.split('@')[0]
\* throws a TypeError when all three are absent
NameThrows(tok) == ~tok.hasName /\ tok.email = 0

\* if (!email || !sub)
MissingUserInformation(tok) == tok.email = 0 \/ tok.sub = 0

\* the request of p ends with `how`
SsoEnd(p, how) ==
    /\ spc' = [spc EXCEPT ![p] = "done"]
    /\ soutcome' = [soutcome EXCEPT ![p] = how]

\* the request of p changes the tables to us, rows, ss
SsoWrite(p, us, rows, ss) ==
    /\ users' = us
    /\ ssoAccounts' = rows
    /\ sessions' = ss
    /\ schanged' = [schanged EXCEPT ![p] =
                       @ \/ us # users \/ rows # ssoAccounts \/ ss # sessions]

\* the request arrives; the configuration check; getOpenIdConfiguration starts
SsoStart(p, tok) ==
    /\ spc[p] = "idle"
    /\ ssoCount < MaxSsoRequests
    /\ ssoCount' = ssoCount + 1
    /\ stok' = [stok EXCEPT ![p] = tok]
    /\ IF ~env.clientId \/ ~env.wellKnown
       THEN SsoEnd(p, "NOT_SETUP")
       ELSE spc' = [spc EXCEPT ![p] = "discovery"] /\ UNCHANGED soutcome
    /\ UNCHANGED <<notSsoVars, env, users, ssoAccounts, sessions, suser, schanged>>

\* getOpenIdConfiguration settles; the userinfo request is sent
SsoDiscovered(p, doc) ==
    /\ spc[p] = "discovery"
    /\ IF doc = "throws" THEN SsoEnd(p, "DISCOVERY_ERROR")
       ELSE IF doc = "no_userinfo_endpoint" THEN SsoEnd(p, "NOT_SETUP")
       ELSE spc' = [spc EXCEPT ![p] = "userinfo"] /\ UNCHANGED soutcome
    /\ UNCHANGED <<notSsoVars, env, users, ssoAccounts, sessions, stok, suser,
                   schanged, ssoCount>>

\* the userinfo request fails on the network: the fetch rejects
SsoUserinfoUnreachable(p) ==
    /\ spc[p] = "userinfo"
    /\ SsoEnd(p, "FETCH_ERROR")
    /\ UNCHANGED <<notSsoVars, env, users, ssoAccounts, sessions, stok, suser,
                   schanged, ssoCount>>

\* the userinfo response arrives: response check, claims check, then
\* prisma.user.findFirst is issued
SsoUserinfo(p) ==
    /\ spc[p] = "userinfo"
    /\ IF ~UserinfoOk(stok[p]) THEN SsoEnd(p, "UNAUTHORIZED")
       ELSE IF NameThrows(stok[p]) THEN SsoEnd(p, "TYPE_ERROR")
       ELSE IF MissingUserInformation(stok[p]) THEN SsoEnd(p, "INVALID_REQUEST")
       ELSE spc' = [spc EXCEPT ![p] = "findUser"] /\ UNCHANGED soutcome
    /\ UNCHANGED <<notSsoVars, env, users, ssoAccounts, sessions, stok, suser,
                   schanged, ssoCount>>

\* prisma.user.findFirst resolves
SsoFindUser(p) ==
    /\ spc[p] = "findUser"
    /\ suser' = [suser EXCEPT ![p] = FindUser(users, stok[p].email)]
    /\ spc' = [spc EXCEPT ![p] =
                  IF FindUser(users, stok[p].email) = 0 THEN "createUser" ELSE "findAccount"]
    /\ UNCHANGED <<notSsoVars, env, users, ssoAccounts, sessions, stok, soutcome,
                   schanged, ssoCount>>

\* prisma.$transaction: user.create and account.create commit together
SsoCreateUser(p) ==
    /\ spc[p] = "createUser"
    /\ LET id == Len(users) + 1
       IN /\ SsoWrite(p, Append(users, stok[p].email),
                         Append(ssoAccounts, [userId |-> id, sub |-> stok[p].sub]),
                         sessions)
          /\ suser' = [suser EXCEPT ![p] = id]
    /\ spc' = [spc EXCEPT ![p] = "authorize"]
    /\ UNCHANGED <<notSsoVars, env, stok, soutcome, ssoCount>>

\* prisma.$transaction rolls back: a user with this e-mail was created in
\* the meantime, or the store fails
SsoCreateUserFailed(p) ==
    /\ spc[p] = "createUser"
    /\ SsoEnd(p, "STORE_ERROR")
    /\ UNCHANGED <<notSsoVars, env, users, ssoAccounts, sessions, stok, suser,
                   schanged, ssoCount>>

\* prisma.account.findFirst resolves
SsoFindAccount(p) ==
    /\ spc[p] = "findAccount"
    /\ spc' = [spc EXCEPT ![p] =
                  IF HasLinkedAccount(ssoAccounts, suser[p]) THEN "authorize"
                  ELSE "createAccount"]
    /\ UNCHANGED <<notSsoVars, env, users, ssoAccounts, sessions, stok, suser,
                   soutcome, schanged, ssoCount>>

\* prisma.account.create settles
SsoCreateAccount(p) ==
    /\ spc[p] = "createAccount"
    /\ IF AccountKeyTaken(ssoAccounts, suser[p])
       THEN /\ SsoEnd(p, "STORE_ERROR")
            /\ UNCHANGED <<users, ssoAccounts, sessions, schanged>>
       ELSE /\ SsoWrite(p, users,
                           Append(ssoAccounts, [userId |-> suser[p], sub |-> stok[p].sub]),
                           sessions)
            /\ spc' = [spc EXCEPT ![p] = "authorize"]
            /\ UNCHANGED soutcome
    /\ UNCHANGED <<notSsoVars, env, stok, suser, ssoCount>>

\* onAuthorize creates the session; the route answers success
SsoAuthorize(p) ==
    /\ spc[p] = "authorize"
    /\ SsoWrite(p, users, ssoAccounts,
                   sessions \cup {[userId |-> suser[p], valid |-> stok[p].ok]})
    /\ SsoEnd(p, "success")
    /\ UNCHANGED <<notSsoVars, env, stok, suser, ssoCount>>

\* the response is sent; the handler is free for the next request
SsoReturn(p) ==
    /\ spc[p] = "done"
    /\ spc' = [spc EXCEPT ![p] = "idle"]
    /\ stok' = [stok EXCEPT ![p] = NoSsoToken]
    /\ suser' = [suser EXCEPT ![p] = 0]
    /\ soutcome' = [soutcome EXCEPT ![p] = "none"]
    /\ schanged' = [schanged EXCEPT ![p] = FALSE]
    /\ UNCHANGED <<notSsoVars, env, users, ssoAccounts, sessions, ssoCount>>

\* no /token request is in progress
SsoIdle ==
    /\ spc = [p \in Procs |-> "idle"]
    /\ stok = [p \in Procs |-> NoSsoToken]
    /\ suser = [p \in Procs |-> 0]
    /\ soutcome = [p \in Procs |-> "none"]
    /\ schanged = [p \in Procs |-> FALSE]
    /\ ssoCount = 0

\* no user has signed in yet
SsoEmpty ==
    /\ users = <<>>
    /\ ssoAccounts = <<>>
    /\ sessions = {}

(***************************************************************************)
(* Settings synchronisation: the provider's config records and the local   *)
(* OrganisationGlobalSettings row                                           *)
(***************************************************************************)
MaxPulls == 2

\* JS null in a string column
NullStr == "<null>"

\* the value of an expression that evaluates to undefined
UndefinedStr == "<undefined>"

\* an object without keys: {} (and what ?. yields on null)
EmptyObject == <<>>

Has(obj, k) == k \in DOMAIN obj

\* obj[k] = v
Assign(obj, k, v) ==
    [x \in DOMAIN obj \cup {k} |-> IF x = k THEN v ELSE obj[x]]

\* delete obj[k] for every k of keys
Delete(obj, keys) == [x \in DOMAIN obj \ keys |-> obj[x]]

\* cockpitConfig?.section
Section(meta, s) == IF Has(meta, s) THEN meta[s] ELSE EmptyObject

\* if (section.k !== undefined) updateData[map[k]] = section.k, for each k
CopyDefined(upd, sec, map) ==
    LET ks == DOMAIN sec \cap DOMAIN map IN
    [x \in DOMAIN upd \cup {map[k] : k \in ks} |->
        IF \E k \in ks : map[k] = x
        THEN sec[CHOOSE k \in ks : map[k] = x]
        ELSE upd[x]]

\* !value for a string column
Falsy(s) == s \in {"", NullStr, UndefinedStr}

mapDocumentVisibility(visibility) ==
    IF Falsy(visibility) THEN UndefinedStr
    ELSE IF visibility \in {"EVERYONE", "MANAGER_AND_ABOVE", "ADMIN"}
         THEN visibility
         ELSE UndefinedStr

\* organisations known to the provider: 1 is a root, 2 is a child of 1
NoUser == [orgId |-> 0, name |-> "", logo |-> UndefinedStr, parentId |-> 0]

CockpitUsers ==
    { [orgId |-> 1, name |-> "Board", logo |-> "board-logo", parentId |-> 0],
      [orgId |-> 2, name |-> "School", logo |-> UndefinedStr, parentId |-> 1],
      [orgId |-> 2, name |-> "School", logo |-> "school-logo", parentId |-> 1] }

\* !currentUser.organization.parentOrganization
IsParentOrg(user) == user.parentId = 0

\* userPreferences?.preferences?.locale
Locales == {UndefinedStr, "fr"}

\* the meta of config records as DocumensoConfigMeta declares it
RemoteMetas ==
    { [documentDefaults |-> [language |-> "de", timezone |-> "UTC",
                             dateFormat |-> "dd.MM.yyyy",
                             documentVisibility |-> "ADMIN"],
       signatureSettings |-> [typedSignatureEnabled |-> FALSE,
                              uploadSignatureEnabled |-> FALSE,
                              drawSignatureEnabled |-> FALSE],
       certificateSettings |-> [includeSenderDetails |-> FALSE,
                                includeSigningCertificate |-> TRUE,
                                includeAuditLog |-> FALSE],
       emailSettings |-> [replyToEmail |-> "board@x.com"]],
      [signatureSettings |-> [typedSignatureEnabled |-> FALSE]],
      [signatureSettings |-> [typedSignatureEnabled |-> FALSE,
                              uploadSignatureEnabled |-> TRUE]],
      [documentDefaults |-> [language |-> "", documentVisibility |-> "NOBODY"],
       emailSettings |-> [replyToEmail |-> "board@x.com"]],
      [branding |-> [enabled |-> TRUE, logo |-> "remote-logo",
                     companyName |-> "Remote"]] }

\* what the provider can hold when a pull starts
InitialConfigs ==
    {<<>>}
    \cup {<<[id |-> 1, organizationId |-> 1, meta |-> m]>> : m \in RemoteMetas}
    \cup {<<[id |-> 1, organizationId |-> 1, meta |-> m],
           [id |-> 2, organizationId |-> 2,
            meta |-> [signatureSettings |-> [typedSignatureEnabled |-> FALSE]]]>> :
             m \in RemoteMetas}

\* the settings row as the organisation is created, and as an administrator
\* has edited it
DefaultSettings ==
    [brandingLogo |-> "", brandingEnabled |-> FALSE,
     brandingCompanyDetails |-> "",
     documentLanguage |-> "en", documentTimezone |-> NullStr,
     documentDateFormat |-> "yyyy-MM-dd", documentVisibility |-> "EVERYONE",
     typedSignatureEnabled |-> TRUE, uploadSignatureEnabled |-> TRUE,
     drawSignatureEnabled |-> TRUE,
     includeSenderDetails |-> TRUE, includeSigningCertificate |-> TRUE,
     includeAuditLog |-> TRUE, emailReplyTo |-> NullStr]

AdminSettings ==
    [brandingLogo |-> "local-logo", brandingEnabled |-> TRUE,
     brandingCompanyDetails |-> "Local GmbH",
     documentLanguage |-> "en", documentTimezone |-> "Europe/Berlin",
     documentDateFormat |-> "yyyy-MM-dd", documentVisibility |-> "EVERYONE",
     typedSignatureEnabled |-> TRUE, uploadSignatureEnabled |-> FALSE,
     drawSignatureEnabled |-> FALSE,
     includeSenderDetails |-> TRUE, includeSigningCertificate |-> TRUE,
     includeAuditLog |-> TRUE, emailReplyTo |-> "admin@x.com"]

SignatureKeys ==
    {"typedSignatureEnabled", "uploadSignatureEnabled", "drawSignatureEnabled"}

\* the records the provider lets a member of organisation orgId see: its
\* own organisation's, then its parent's
VisibleConfigs(cfgs, user) ==
    SelectSeq(cfgs, LAMBDA c : c.organizationId = user.orgId)
    \o SelectSeq(cfgs, LAMBDA c : c.organizationId = user.parentId)

\* getDocumensoConfigs: the list, or [] when the request fails
getDocumensoConfigs(cfgs, user, listOk) ==
    IF listOk THEN VisibleConfigs(cfgs, user) ELSE <<>>

NoConfig == [id |-> 0, organizationId |-> 0, meta |-> EmptyObject]

\* configs.find((c) => c.organizationId === userOrgId)
OwnConfig(list, userOrgId) ==
    IF \E i \in 1..Len(list) : list[i].organizationId = userOrgId
    THEN list[CHOOSE i \in 1..Len(list) :
                 /\ list[i].organizationId = userOrgId
                 /\ \A j \in 1..(i - 1) : list[j].organizationId # userOrgId]
    ELSE NoConfig

\* getDocumensoConfig: the caller's own record, else the first visible one
getDocumensoConfig(currentUser, list) ==
    IF currentUser = NoUser \/ Len(list) = 0 THEN NoConfig
    ELSE IF OwnConfig(list, currentUser.orgId) # NoConfig
         THEN OwnConfig(list, currentUser.orgId)
         ELSE list[1]

\* getDocumensoSettings: config?.meta ?? null
getDocumensoSettings(currentUser, list) == getDocumensoConfig(currentUser, list).meta

\* currentUser.organization.logo?.url || currentUser.organization.logo?.link
OrgLogo(user) == user.logo

BrandingDefaults_IgnoreLocal(cur, user) ==
    LET u1 == IF ~Falsy(OrgLogo(user))
              THEN Assign(Assign(EmptyObject, "brandingLogo", OrgLogo(user)),
                          "brandingEnabled", TRUE)
              ELSE EmptyObject
    IN IF ~Falsy(user.name)
       THEN Assign(u1, "brandingCompanyDetails", user.name)
       ELSE u1

\* lines 172-180: branding defaults from the organisation
BrandingDefaults(cur, user) ==
    LET u1 == IF Falsy(cur.brandingLogo) /\ ~Falsy(OrgLogo(user))
              THEN Assign(Assign(EmptyObject, "brandingLogo", OrgLogo(user)),
                          "brandingEnabled", TRUE)
              ELSE EmptyObject
    IN IF Falsy(cur.brandingCompanyDetails) /\ ~Falsy(user.name)
       THEN Assign(u1, "brandingCompanyDetails", user.name)
       ELSE u1

\* lines 183-195: document defaults, then the user's locale
DocumentDefaults(upd, meta, locale) ==
    LET d  == Section(meta, "documentDefaults")
        u1 == IF Has(d, "language")
              THEN Assign(upd, "documentLanguage",
                          IF Falsy(d.language) THEN "en" ELSE d.language)
              ELSE upd
        u2 == CopyDefined(u1, d, [timezone |-> "documentTimezone",
                                  dateFormat |-> "documentDateFormat"])
        v  == IF Has(d, "documentVisibility")
              THEN mapDocumentVisibility(d.documentVisibility)
              ELSE UndefinedStr
        u3 == IF v # UndefinedStr THEN Assign(u2, "documentVisibility", v) ELSE u2
        noLanguage == ~Has(d, "language") \/ Falsy(d.language)
    IN IF noLanguage /\ ~Falsy(locale)
       THEN Assign(u3, "documentLanguage", locale)
       ELSE u3

\* lines 165-224: updateData
UpdateData(cur, meta, locale, user) ==
    LET u1 == DocumentDefaults(BrandingDefaults(cur, user), meta, locale)
        u2 == CopyDefined(u1, Section(meta, "signatureSettings"),
                 [typedSignatureEnabled |-> "typedSignatureEnabled",
                  uploadSignatureEnabled |-> "uploadSignatureEnabled",
                  drawSignatureEnabled |-> "drawSignatureEnabled"])
        u3 == CopyDefined(u2, Section(meta, "certificateSettings"),
                 [includeSenderDetails |-> "includeSenderDetails",
                  includeSigningCertificate |-> "includeSigningCertificate",
                  includeAuditLog |-> "includeAuditLog"])
    IN CopyDefined(u3, Section(meta, "emailSettings"),
                   [replyToEmail |-> "emailReplyTo"])

\* updateData.k ?? currentSettings.k
Final(upd, cur, k) == IF Has(upd, k) THEN upd[k] ELSE cur[k]

AllSignaturesDisabled_IgnoreCurrent(upd, cur) ==
    \A k \in SignatureKeys : Has(upd, k) /\ ~upd[k]

\* lines 233-240
AllSignaturesDisabled(upd, cur) ==
    \A k \in SignatureKeys : ~Final(upd, cur, k)

\* lines 240-246: the data handed to the update
ValidatedData(upd, cur) ==
    IF AllSignaturesDisabled(upd, cur) THEN Delete(upd, SignatureKeys) ELSE upd

\* prisma.organisationGlobalSettings.update({ data })
UpdatedSettings(row, data) ==
    [k \in DOMAIN row |-> IF Has(data, k) THEN data[k] ELSE row[k]]

NoData == [none |-> TRUE]

(***************************************************************************)
(* syncCockpitConfigToOrganisation (pull)                                   *)
(***************************************************************************)
pullVars == <<orgSettings, member, ppc, pmeta, plocale, puser, pfailed, currentSettings,
              pre, pdiff, pdata, pupdates, presult, pullCount>>

PullEnd(r) ==
    /\ presult' = r
    /\ ppc' = "done"

\* lines 132-136: the three requests of Promise.all; a request that fails
\* yields null inside its own catch
PullStart(user, locale, listOk, meOk, prefsOk, userOk) ==
    /\ ppc = "idle"
    /\ pullCount < MaxPulls
    /\ pmeta' = getDocumensoSettings(IF meOk THEN user ELSE NoUser,
                                     getDocumensoConfigs(configs, user, listOk))
    /\ plocale' = IF prefsOk THEN locale ELSE UndefinedStr
    /\ puser' = IF userOk THEN user ELSE NoUser
    /\ pfailed' = {f \in {"configs", "me", "preferences", "profile"} :
                      \/ f = "configs" /\ ~listOk
                      \/ f = "me" /\ ~meOk
                      \/ f = "preferences" /\ ~prefsOk
                      \/ f = "profile" /\ ~userOk}
    /\ pre' = orgSettings
    /\ pdiff' = NoData
    /\ pdata' = NoData
    /\ pupdates' = 0
    /\ presult' = "none"
    /\ ppc' = "fetched"
    /\ UNCHANGED <<orgSettings, member, currentSettings, pullCount>>

\* lines 138-141
PullNoUser ==
    /\ ppc = "fetched"
    /\ puser = NoUser
    /\ PullEnd("false")
    /\ UNCHANGED <<orgSettings, member, pmeta, plocale, puser, pfailed, currentSettings,
                   pre, pdiff, pdata, pupdates, pullCount>>

\* lines 144-162: the membership lookup reads the settings row
PullFindMember ==
    /\ ppc = "fetched"
    /\ puser # NoUser
    /\ IF member
       THEN /\ currentSettings' = orgSettings
            /\ ppc' = "member"
            /\ UNCHANGED presult
       ELSE /\ PullEnd("false")
            /\ UNCHANGED currentSettings
    /\ UNCHANGED <<orgSettings, member, pmeta, plocale, puser, pfailed, pre,
                   pdiff, pdata, pupdates, pullCount>>

\* lines 144, 260-263: the lookup throws
PullFindMemberFailed ==
    /\ ppc = "fetched"
    /\ puser # NoUser
    /\ pfailed' = pfailed \cup {"lookup"}
    /\ PullEnd("false")
    /\ UNCHANGED <<orgSettings, member, pmeta, plocale, puser, currentSettings,
                   pre, pdiff, pdata, pupdates, pullCount>>

\* lines 165-259: build updateData, validate it, one update of the row
PullUpdate ==
    /\ ppc = "member"
    /\ LET upd == UpdateData(currentSettings, pmeta, plocale, puser) IN
          /\ pdiff' = upd
          /\ IF DOMAIN upd = {}
             THEN UNCHANGED <<orgSettings, pdata, pupdates>>
             ELSE /\ pdata' = ValidatedData(upd, currentSettings)
                  /\ orgSettings' = UpdatedSettings(orgSettings, pdata')
                  /\ pupdates' = pupdates + 1
    /\ PullEnd("true")
    /\ UNCHANGED <<member, pmeta, plocale, puser, pfailed, currentSettings, pre, pullCount>>

\* lines 249, 260-263: the update throws and nothing is written
PullUpdateFailed ==
    /\ ppc = "member"
    /\ DOMAIN UpdateData(currentSettings, pmeta, plocale, puser) # {}
    /\ pdiff' = UpdateData(currentSettings, pmeta, plocale, puser)
    /\ pfailed' = pfailed \cup {"update"}
    /\ PullEnd("false")
    /\ UNCHANGED <<orgSettings, member, pmeta, plocale, puser, currentSettings,
                   pre, pdata, pupdates, pullCount>>

\* the promise settles; the call's locals are gone
PullReturn ==
    /\ ppc = "done"
    /\ ppc' = "idle"
    /\ pullCount' = pullCount + 1
    /\ pmeta' = EmptyObject
    /\ plocale' = UndefinedStr
    /\ puser' = NoUser
    /\ pfailed' = {}
    /\ currentSettings' = DefaultSettings
    /\ pre' = DefaultSettings
    /\ pdiff' = NoData
    /\ pdata' = NoData
    /\ pupdates' = 0
    /\ presult' = "none"
    /\ UNCHANGED <<orgSettings, member>>

\* no pull has been made
PullIdle ==
    /\ ppc = "idle"
    /\ pmeta = EmptyObject
    /\ plocale = UndefinedStr
    /\ puser = NoUser
    /\ pfailed = {}
    /\ currentSettings = DefaultSettings
    /\ pre = DefaultSettings
    /\ pdiff = NoData
    /\ pdata = NoData
    /\ pupdates = 0
    /\ presult = "none"

(***************************************************************************)
(* syncOrganisationToCockpit (push)                                         *)
(***************************************************************************)
MaxPushes == 2

DOCUMENSO_CONFIG_IDENTIFIER == "documenso"

pushVars == <<qpc, quser, qsettings, qexisting, qfailed, qsent, qresult, posts,
              pushCount>>

\* what neither pull nor push touches
notSyncVars == <<env, nowMs, tokenVars, jwksVars, ssoVars, suggestVars>>

\* the callers of push and the settings they have just saved
PushUsers ==
    { [orgId |-> 1, name |-> "Board", logo |-> "board-logo", parentId |-> 0],
      [orgId |-> 2, name |-> "School", logo |-> UndefinedStr, parentId |-> 1] }

PushSettings ==
    { AdminSettings,
      [brandingEnabled |-> TRUE, brandingCompanyDetails |-> "Local GmbH"] }

NoSettings == [none |-> TRUE]

\* the columns that can hold null
NullableKeys == {"documentTimezone", "emailReplyTo"}

\* settings[k] ?? undefined  is a value
Defined(settings, k) ==
    /\ Has(settings, k)
    /\ k \in NullableKeys => settings[k] # NullStr

\* { k: settings[map[k]] ?? undefined } as it is serialised
Pick(settings, map) ==
    [k \in {x \in DOMAIN map : Defined(settings, map[x])} |-> settings[map[k]]]

mapDocumentVisibilityToCockpit(visibility) ==
    IF Falsy(visibility) THEN UndefinedStr
    ELSE IF visibility \in {"EVERYONE", "MANAGER_AND_ABOVE", "ADMIN"}
         THEN visibility
         ELSE UndefinedStr

\* lines 322-329
BrandingSection(settings, user) ==
    LET b == Pick(settings, [enabled |-> "brandingEnabled",
                             companyName |-> "brandingCompanyDetails"])
    IN IF OrgLogo(user) # UndefinedStr THEN Assign(b, "logo", OrgLogo(user)) ELSE b

\* lines 333-338
DocumentDefaultsSection(settings) ==
    LET d == Pick(settings, [language |-> "documentLanguage",
                             timezone |-> "documentTimezone",
                             dateFormat |-> "documentDateFormat"])
        v == IF Has(settings, "documentVisibility")
             THEN mapDocumentVisibilityToCockpit(settings.documentVisibility)
             ELSE UndefinedStr
    IN IF v # UndefinedStr THEN Assign(d, "documentVisibility", v) ELSE d

CockpitSettings_AllRoles(settings, user) ==
    [branding |-> BrandingSection(settings, user),
     documentDefaults |-> DocumentDefaultsSection(settings),
     signatureSettings |-> Pick(settings,
         [typedSignatureEnabled |-> "typedSignatureEnabled",
          uploadSignatureEnabled |-> "uploadSignatureEnabled",
          drawSignatureEnabled |-> "drawSignatureEnabled"]),
     certificateSettings |-> Pick(settings,
         [includeSenderDetails |-> "includeSenderDetails",
          includeSigningCertificate |-> "includeSigningCertificate",
          includeAuditLog |-> "includeAuditLog"]),
     emailSettings |-> Pick(settings, [replyToEmail |-> "emailReplyTo"])]

\* lines 319-358: cockpitSettings
CockpitSettings(settings, user) ==
    IF IsParentOrg(user)
    THEN [branding |-> BrandingSection(settings, user),
          documentDefaults |-> DocumentDefaultsSection(settings),
          signatureSettings |-> Pick(settings,
              [typedSignatureEnabled |-> "typedSignatureEnabled",
               uploadSignatureEnabled |-> "uploadSignatureEnabled",
               drawSignatureEnabled |-> "drawSignatureEnabled"]),
          certificateSettings |-> Pick(settings,
              [includeSenderDetails |-> "includeSenderDetails",
               includeSigningCertificate |-> "includeSigningCertificate",
               includeAuditLog |-> "includeAuditLog"]),
          emailSettings |-> Pick(settings, [replyToEmail |-> "emailReplyTo"])]
    ELSE [branding |-> BrandingSection(settings, user)]

getDocumensoConfigForUpdate_FirstVisible(currentUser, list) ==
    IF currentUser = NoUser \/ Len(list) = 0 THEN NoConfig ELSE list[1]

\* getDocumensoConfigForUpdate: only the caller's own organisation's record
getDocumensoConfigForUpdate(currentUser, list) ==
    IF currentUser = NoUser THEN NoConfig
    ELSE OwnConfig(list, currentUser.orgId)

\* upsertDocumensoConfig, lines 540-546: the request body
UpsertPayload(settings, existingConfigId) ==
    LET body == [identifier |-> DOCUMENSO_CONFIG_IDENTIFIER,
                 meta |-> [documensoConfig |-> settings]]
    IN IF existingConfigId # 0 THEN Assign(body, "id", existingConfigId)
       ELSE body

\* POST /configs at the provider: a body with an id replaces that record's
\* meta, a body without one adds a record for the caller's organisation
ProviderPost(cfgs, orgId, body) ==
    IF Has(body, "id")
    THEN [i \in 1..Len(cfgs) |->
             IF cfgs[i].id = body.id
             THEN [cfgs[i] EXCEPT !.meta = body.meta]
             ELSE cfgs[i]]
    ELSE Append(cfgs, [id |-> Len(cfgs) + 1, organizationId |-> orgId,
                       meta |-> body.meta])

PushResult_AlwaysTrue(record) == "true"

\* lines 363-372: if (result) return true; return false
PushResult(record) == IF record THEN "true" ELSE "false"

PushEnd(p, r) ==
    /\ qresult' = [qresult EXCEPT ![p] = r]
    /\ qpc' = [qpc EXCEPT ![p] = "done"]

\* a caller saves settings and push begins (line 293)
PushStart(p, user, settings) ==
    /\ qpc[p] = "idle"
    /\ pushCount < MaxPushes
    /\ qpc' = [qpc EXCEPT ![p] = "token"]
    /\ quser' = [quser EXCEPT ![p] = user]
    /\ qsettings' = [qsettings EXCEPT ![p] = settings]
    /\ qexisting' = [qexisting EXCEPT ![p] = 0]
    /\ qfailed' = [qfailed EXCEPT ![p] = {}]
    /\ qsent' = [qsent EXCEPT ![p] = 0]
    /\ qresult' = [qresult EXCEPT ![p] = "none"]
    /\ pushCount' = pushCount + 1
    /\ UNCHANGED <<configs, posts>>

\* lines 301-306: getUserAccessToken yields a token, null, or throws
PushToken(p, token) ==
    /\ qpc[p] = "token"
    /\ IF token = "token"
       THEN /\ qpc' = [qpc EXCEPT ![p] = "me"]
            /\ UNCHANGED <<qresult, qfailed>>
       ELSE /\ PushEnd(p, "false")
            /\ qfailed' = [qfailed EXCEPT ![p] = {"token"}]
    /\ UNCHANGED <<configs, quser, qsettings, qexisting, qsent, posts, pushCount>>

\* lines 309-313: getCurrentUser
PushCurrentUser(p, ok) ==
    /\ qpc[p] = "me"
    /\ IF ok
       THEN /\ qpc' = [qpc EXCEPT ![p] = "forUpdate"]
            /\ UNCHANGED <<qresult, qfailed>>
       ELSE /\ PushEnd(p, "false")
            /\ qfailed' = [qfailed EXCEPT ![p] = {"profile"}]
    /\ UNCHANGED <<configs, quser, qsettings, qexisting, qsent, posts, pushCount>>

\* line 319: getDocumensoConfigForUpdate, with its own two requests
PushConfigForUpdate(p, meOk, listOk) ==
    /\ qpc[p] = "forUpdate"
    /\ qexisting' = [qexisting EXCEPT ![p] =
          getDocumensoConfigForUpdate(
              IF meOk THEN quser[p] ELSE NoUser,
              getDocumensoConfigs(configs, quser[p], listOk)).id]
    /\ qfailed' = [qfailed EXCEPT ![p] =
          {f \in {"me", "configs"} : \/ f = "me" /\ ~meOk
                                     \/ f = "configs" /\ ~listOk}]
    /\ qpc' = [qpc EXCEPT ![p] = "upsert"]
    /\ UNCHANGED <<configs, quser, qsettings, qsent, qresult, posts, pushCount>>

\* lines 361-371 and upsertDocumensoConfig: the provider stores the body and
\* answers with the record
PushUpsert(p) ==
    /\ qpc[p] = "upsert"
    /\ LET body == UpsertPayload(CockpitSettings(qsettings[p], quser[p]),
                                 qexisting[p]) IN
          /\ posts' = posts \cup {[proc |-> p, orgId |-> quser[p].orgId,
                                   parentId |-> quser[p].parentId,
                                   body |-> body]}
          /\ configs' = ProviderPost(configs, quser[p].orgId, body)
    /\ qsent' = [qsent EXCEPT ![p] = qsent[p] + 1]
    /\ PushEnd(p, PushResult(TRUE))
    /\ UNCHANGED <<quser, qsettings, qexisting, qfailed, pushCount>>

\* upsertDocumensoConfig, lines 551-554: the request fails and null comes
\* back
PushUpsertFailed(p) ==
    /\ qpc[p] = "upsert"
    /\ posts' = posts \cup
          {[proc |-> p, orgId |-> quser[p].orgId,
            parentId |-> quser[p].parentId,
            body |-> UpsertPayload(CockpitSettings(qsettings[p], quser[p]),
                                   qexisting[p])]}
    /\ qsent' = [qsent EXCEPT ![p] = qsent[p] + 1]
    /\ PushEnd(p, PushResult(FALSE))
    /\ qfailed' = [qfailed EXCEPT ![p] = qfailed[p] \cup {"write"}]
    /\ UNCHANGED <<configs, quser, qsettings, qexisting, pushCount>>

PushReturn(p) ==
    /\ qpc[p] = "done"
    /\ qpc' = [qpc EXCEPT ![p] = "idle"]
    /\ UNCHANGED <<configs, quser, qsettings, qexisting, qfailed, qsent,
                   qresult, posts, pushCount>>

\* no push has been made
PushIdle ==
    /\ qpc = [p \in Procs |-> "idle"]
    /\ quser = [p \in Procs |-> NoUser]
    /\ qsettings = [p \in Procs |-> NoSettings]
    /\ qexisting = [p \in Procs |-> 0]
    /\ qfailed = [p \in Procs |-> {}]
    /\ qsent = [p \in Procs |-> 0]
    /\ qresult = [p \in Procs |-> "none"]
    /\ posts = {}
    /\ pushCount = 0


(***************************************************************************)
(* getRecipientSuggestions: strings, e-mail syntax, the three sources       *)
(***************************************************************************)
MaxSuggestCalls == 2

\* the largest page asked for
MaxTake == 2

\* a string is the sequence of its characters
LowerChar(ch) ==
    CASE ch = "A" -> "a"
      [] ch = "B" -> "b"
      [] OTHER -> ch

toLowerCase_Identity(str) == str

\* String.prototype.toLowerCase
toLowerCase(str) == [i \in DOMAIN str |-> LowerChar(str[i])]

\* String.prototype.trim
trim(str) ==
    LET inked == {i \in DOMAIN str : str[i] # " "}
    IN IF inked = {} THEN <<>>
       ELSE SubSeq(str, CHOOSE i \in inked : \A j \in inked : i <= j,
                        CHOOSE i \in inked : \A j \in inked : j <= i)

\* contains, mode insensitive
Contains(str, q) ==
    \E i \in 1..(Len(str) - Len(q) + 1) :
        SubSeq(toLowerCase(str), i, i + Len(q) - 1) = toLowerCase(q)

isValidEmail_AcceptAll(email) == TRUE

\* z.string().email(): one @; a local part of letters and dots that does
\* not begin with a dot and ends with a letter; no two dots in a row; a
\* domain of dot-separated labels whose last has at least two letters
isValidEmail(email) ==
    /\ Cardinality({i \in DOMAIN email : email[i] = "@"}) = 1
    /\ LET Letters == {"a", "b", "c", "d", "e", "x", "A", "B"}
           at == CHOOSE i \in DOMAIN email : email[i] = "@"
           local == SubSeq(email, 1, at - 1)
           domain == SubSeq(email, at + 1, Len(email))
           dots == {i \in DOMAIN domain : domain[i] = "."}
       IN /\ Len(local) >= 1
          /\ \A i \in DOMAIN local : local[i] \in Letters \cup {"."}
          /\ local[1] # "."
          /\ local[Len(local)] \in Letters
          /\ \A i \in 1..(Len(email) - 1) : ~(email[i] = "." /\ email[i + 1] = ".")
          /\ Len(domain) >= 1
          /\ \A i \in DOMAIN domain : domain[i] \in Letters \cup {"."}
          /\ domain[1] \in Letters
          /\ dots # {}
          /\ \A d \in dots : (\A e \in dots : e <= d) => Len(domain) - d >= 2

\* an address at x.de
Mail(l) == <<l, "@", "x", ".", "d", "e">>

\* GET /users of the provider: its users in the order it lists them; two
\* of them may carry strings that are not addresses
Directories ==
    LET DirectoryUser(email, fullName) ==
            [email |-> email, fullName |-> fullName, firstName |-> <<"x">>,
             avatar |-> "avatar-link", organization |-> "Board"]
    IN { <<>>,
         <<DirectoryUser(Mail("a"), <<"a", "x">>)>>,
         <<DirectoryUser(Mail("A"), <<>>), DirectoryUser(Mail("b"), <<"b">>),
           DirectoryUser(Mail("c"), <<"c">>)>>,
         <<DirectoryUser(<<"b", "a", "d">>, <<"x">>),
           DirectoryUser(<<"e", "@", "x">>, <<"x">>),
           DirectoryUser(Mail("a"), <<"a">>), DirectoryUser(Mail("b"), <<"b">>)>>,
         <<DirectoryUser(Mail("a"), <<"a">>), DirectoryUser(Mail("b"), <<"b">>),
           DirectoryUser(Mail("c"), <<"c">>), DirectoryUser(Mail("d"), <<"d">>),
           DirectoryUser(Mail("e"), <<"e">>)>> }

\* Recipient rows of the team's documents, newest envelope first
Histories ==
    LET RecipientRow(email) == [email |-> email, name |-> <<"x">>]
    IN { <<>>,
         <<RecipientRow(Mail("a")), RecipientRow(Mail("b"))>>,
         <<RecipientRow(Mail("a")), RecipientRow(Mail("a")), RecipientRow(<<>>),
           RecipientRow(Mail("B")), RecipientRow(<<"b", "a", "d">>),
           RecipientRow(Mail("c"))>>,
         <<RecipientRow(Mail("c")), RecipientRow(Mail("d")),
           RecipientRow(Mail("e"))>>,
         [i \in 1..12 |->
             IF i < 12
             THEN RecipientRow(<<"b", "a", "d">> \o [j \in 1..i |-> "x"])
             ELSE RecipientRow(Mail("e"))] }

\* OrganisationMember rows of the team with their user; id 1 is the caller
Teams ==
    LET MemberRow(id, email) == [id |-> id, email |-> email, name |-> <<"x">>]
    IN { <<>>,
         <<MemberRow(1, Mail("e")), MemberRow(2, Mail("c"))>>,
         <<MemberRow(2, Mail("a")), MemberRow(3, Mail("b")),
           MemberRow(4, Mail("c")), MemberRow(5, Mail("d"))>>,
         <<MemberRow(2, <<"b", "a", "d">>), MemberRow(3, Mail("d"))>> }

\* nameEmailFilter, lines 73-90
nameEmailFilter(row, trimmedQuery) ==
    trimmedQuery # <<>> =>
        (Contains(row.name, trimmedQuery) \/ Contains(row.email, trimmedQuery))

\* searchUsers over getUsers: the search parameter is sent only when it is
\* not empty; take is params.take || 20; the result is data or []
searchUsers(dir, query, limit) ==
    LET found == SelectSeq(dir, LAMBDA u :
                     query # <<>> =>
                         (Contains(u.fullName, query) \/ Contains(u.email, query)))
        take == IF limit = 0 THEN 20 ELSE limit
    IN SubSeq(found, 1, IF take < Len(found) THEN take ELSE Len(found))

\* lines 53-66: one directory user as a suggestion
CockpitSuggestion(u) ==
    [name |-> IF u.fullName # <<>> THEN u.fullName ELSE u.firstName,
     email |-> u.email,
     avatarUrl |-> u.avatar,
     organizationName |-> u.organization]

\* prisma.recipient.findMany, lines 92-121: where, distinct on email, take
FindRecipients(rows, trimmedQuery, limit) ==
    LET found == SelectSeq(rows, LAMBDA r :
                     r.email # <<>> /\ nameEmailFilter(r, trimmedQuery))
        keep == {i \in DOMAIN found :
                    \A j \in 1..(i - 1) : found[j].email # found[i].email}
        distinct == [k \in 1..Cardinality(keep) |->
                        found[CHOOSE i \in keep :
                                 Cardinality({j \in keep : j < i}) = k - 1]]
    IN SubSeq(distinct, 1, IF limit < Len(distinct) THEN limit ELSE Len(distinct))

\* prisma.organisationMember.findMany, lines 148-173
FindTeamMembers(rows, trimmedQuery, userId, limit) ==
    LET found == SelectSeq(rows, LAMBDA m :
                     nameEmailFilter(m, trimmedQuery) /\ m.id # userId)
    IN SubSeq(found, 1, IF limit < Len(found) THEN limit ELSE Len(found))

\* lines 139-142, 178-181: a local row as a suggestion
LocalSuggestion(row) == [name |-> row.name, email |-> row.email]

MergeStep_LaterWins(acc, s) ==
    IF ~isValidEmail(s.email) THEN acc
    ELSE IF toLowerCase(s.email) \notin acc.seen
    THEN [seen |-> acc.seen \cup {toLowerCase(s.email)},
          all |-> Append(acc.all, s)]
    ELSE [seen |-> acc.seen,
          all |-> [i \in DOMAIN acc.all |->
                     IF toLowerCase(acc.all[i].email) = toLowerCase(s.email)
                     THEN s ELSE acc.all[i]]]

\* the body of the loops of lines 128-133, 136-144, 175-183
MergeStep(acc, s) ==
    IF toLowerCase(s.email) \notin acc.seen /\ isValidEmail(s.email)
    THEN [seen |-> acc.seen \cup {toLowerCase(s.email)},
          all |-> Append(acc.all, s)]
    ELSE acc

\* the loops of lines 128-133, 136-144, 175-183 over one source
RECURSIVE MergeSuggestions(_, _)
MergeSuggestions(acc, list) ==
    IF list = <<>> THEN acc
    ELSE MergeSuggestions(MergeStep(acc, Head(list)), Tail(list))

HasMore_Inclusive(all, skip, take) == Len(all) >= skip + take

\* line 188
HasMore(all, skip, take) == Len(all) > skip + take

\* lines 187-194
SuggestionsResult(all, skip, take) ==
    [suggestions |-> SubSeq(all, skip + 1,
                            IF skip + take < Len(all) THEN skip + take ELSE Len(all)),
     hasMore |-> HasMore(all, skip, take),
     nextSkip |-> skip + take]

\* findRecipientSuggestionsRoute, lines 35-39
RouteResponse(suggested) ==
    [results |-> suggested.suggestions,
     hasMore |-> suggested.hasMore,
     nextCursor |-> suggested.nextSkip]

(***************************************************************************)
(* getRecipientSuggestions and its route                                    *)
(***************************************************************************)
\* what getRecipientSuggestions never touches
notSuggestVars == <<env, nowMs, tokenVars, jwksVars, ssoVars, syncVars>>

NoSuggestions == [none |-> TRUE]

\* the promise of getRecipientSuggestions rejected, with the error of the
\* call that failed
IsThrown(outcome) == "thrown" \in DOMAIN outcome

RemoteCaught_Rethrow(suggestions) == [thrown |-> "cockpit"]

\* lines 68-71: the catch leaves cockpitSuggestions as it was, []
RemoteCaught(suggestions) == suggestions

\* the client asks for the first page of a query; the getUserAccessToken
\* request is under way
SuggestFirstPage(userId, teamId, query, take) ==
    /\ gpc = "idle"
    /\ suggestCount < MaxSuggestCalls
    /\ suggestCount' = suggestCount + 1
    /\ gcall' = [userId |-> userId, teamId |-> teamId, query |-> query,
                 take |-> take, skip |-> 0]
    /\ gpc' = "token"
    /\ cockpitSuggestions' = <<>>
    /\ recipients' = <<>>
    /\ teamMembers' = <<>>
    /\ seenEmails' = {}
    /\ allSuggestions' = <<>>
    /\ gresult' = NoSuggestions
    /\ gremote' = "none"
    /\ gresponse' = NoSuggestions
    /\ pages' = <<>>
    /\ UNCHANGED <<directory, recipientRows, memberRows>>

\* the client follows the cursor of the page it has
SuggestNextPage ==
    /\ gpc = "idle"
    /\ suggestCount < MaxSuggestCalls
    /\ pages # <<>>
    /\ ~IsThrown(gresponse)
    /\ gresponse # NoSuggestions
    /\ suggestCount' = suggestCount + 1
    /\ gcall' = [gcall EXCEPT !.skip = gresponse.nextCursor]
    /\ gpc' = "token"
    /\ cockpitSuggestions' = <<>>
    /\ recipients' = <<>>
    /\ teamMembers' = <<>>
    /\ seenEmails' = {}
    /\ allSuggestions' = <<>>
    /\ gresult' = NoSuggestions
    /\ gremote' = "none"
    /\ gresponse' = NoSuggestions
    /\ UNCHANGED <<directory, recipientRows, memberRows, pages>>

\* lines 46-49, 68-71: getUserAccessToken yields a token, null, or throws
SuggestToken(token) ==
    /\ gpc = "token"
    /\ IF token = "token"
       THEN /\ gpc' = "search"
            /\ UNCHANGED <<gremote, gresult>>
       ELSE /\ gremote' = IF token = "null" THEN "none" ELSE "failed"
            /\ \/ /\ token = "null"
                  /\ gpc' = "recipients"
                  /\ UNCHANGED gresult
               \/ /\ token = "throws"
                  /\ gresult' = RemoteCaught(gresult)
                  /\ gpc' = IF IsThrown(gresult') THEN "done" ELSE "recipients"
    /\ UNCHANGED <<directory, recipientRows, memberRows, gcall,
                   cockpitSuggestions, recipients, teamMembers, seenEmails,
                   allSuggestions, gresponse, pages, suggestCount>>

\* lines 51-66: searchUsers resolves and the users are mapped
SuggestSearch ==
    /\ gpc = "search"
    /\ LET cockpitUsers == searchUsers(directory, trim(gcall.query),
                                       gcall.take + gcall.skip + 1)
       IN cockpitSuggestions' =
             [i \in DOMAIN cockpitUsers |-> CockpitSuggestion(cockpitUsers[i])]
    /\ gremote' = "ok"
    /\ gpc' = "recipients"
    /\ UNCHANGED <<directory, recipientRows, memberRows, gcall, recipients,
                   teamMembers, seenEmails, allSuggestions, gresult, gresponse,
                   pages, suggestCount>>

\* lines 51, 68-71: searchUsers rejects
SuggestSearchFailed ==
    /\ gpc = "search"
    /\ gremote' = "failed"
    /\ gresult' = RemoteCaught(gresult)
    /\ gpc' = IF IsThrown(gresult') THEN "done" ELSE "recipients"
    /\ UNCHANGED <<directory, recipientRows, memberRows, gcall,
                   cockpitSuggestions, recipients, teamMembers, seenEmails,
                   allSuggestions, gresponse, pages, suggestCount>>

\* lines 92-147 (and 187-194 when the team is not asked): the recipients
\* query resolves, the two loops run
SuggestRecipients ==
    /\ gpc = "recipients"
    /\ recipients' = FindRecipients(recipientRows, trim(gcall.query),
                                    gcall.take + gcall.skip + 10)
    /\ LET merged == MergeSuggestions(
                         MergeSuggestions([seen |-> {}, all |-> <<>>],
                                          cockpitSuggestions),
                         [i \in DOMAIN recipients' |-> LocalSuggestion(recipients'[i])])
       IN /\ seenEmails' = merged.seen
          /\ allSuggestions' = merged.all
          /\ IF Len(merged.all) < gcall.skip + gcall.take /\ gcall.teamId # 0
             THEN /\ gpc' = "members"
                  /\ UNCHANGED gresult
             ELSE /\ gpc' = "done"
                  /\ gresult' = SuggestionsResult(merged.all, gcall.skip, gcall.take)
    /\ UNCHANGED <<directory, recipientRows, memberRows, gcall,
                   cockpitSuggestions, teamMembers, gremote, gresponse, pages,
                   suggestCount>>

\* lines 148-194: the members query resolves, the third loop runs
SuggestMembers ==
    /\ gpc = "members"
    /\ teamMembers' = FindTeamMembers(memberRows, trim(gcall.query), gcall.userId,
                                      gcall.take + gcall.skip)
    /\ LET merged == MergeSuggestions(
                         [seen |-> seenEmails, all |-> allSuggestions],
                         [i \in DOMAIN teamMembers' |-> LocalSuggestion(teamMembers'[i])])
       IN /\ seenEmails' = merged.seen
          /\ allSuggestions' = merged.all
          /\ gresult' = SuggestionsResult(merged.all, gcall.skip, gcall.take)
    /\ gpc' = "done"
    /\ UNCHANGED <<directory, recipientRows, memberRows, gcall,
                   cockpitSuggestions, recipients, gremote, gresponse, pages,
                   suggestCount>>

\* lines 92, 148: the recipients query or the members query rejects, and so
\* does the call
SuggestQueryFailed ==
    /\ gpc \in {"recipients", "members"}
    /\ gresult' = [thrown |-> gpc]
    /\ gpc' = "done"
    /\ UNCHANGED <<directory, recipientRows, memberRows, gcall,
                   cockpitSuggestions, recipients, teamMembers, seenEmails,
                   allSuggestions, gremote, gresponse, pages, suggestCount>>

\* the route answers (lines 27-39 of the route)
SuggestReturn ==
    /\ gpc = "done"
    /\ gpc' = "idle"
    /\ gresponse' = IF IsThrown(gresult) THEN gresult
                    ELSE RouteResponse(gresult)
    /\ pages' = IF IsThrown(gresult) THEN pages
                ELSE Append(pages,
                       [emails |-> {toLowerCase(gresult.suggestions[i].email) :
                                       i \in DOMAIN gresult.suggestions},
                        hasMore |-> gresult.hasMore,
                        skip |-> gcall.skip,
                        remote |-> gremote])
    /\ UNCHANGED <<directory, recipientRows, memberRows, gcall,
                   cockpitSuggestions, recipients, teamMembers, seenEmails,
                   allSuggestions, gresult, gremote, suggestCount>>

\* no suggestion has been asked for
SuggestIdle ==
    /\ gpc = "idle"
    /\ gcall = [userId |-> 0, teamId |-> 0, query |-> <<>>, take |-> 0, skip |-> 0]
    /\ cockpitSuggestions = <<>>
    /\ recipients = <<>>
    /\ teamMembers = <<>>
    /\ seenEmails = {}
    /\ allSuggestions = <<>>
    /\ gresult = NoSuggestions
    /\ gremote = "none"
    /\ gresponse = NoSuggestions
    /\ pages = <<>>
    /\ suggestCount = 0

\* nothing has been synchronised
SyncIdle ==
    /\ PullIdle
    /\ pullCount = 0
    /\ PushIdle
    /\ configs = <<>>
    /\ orgSettings = DefaultSettings
    /\ member = TRUE

\* no getUserAccessToken call has been made
TokenIdle ==
    /\ pc = [p \in Procs |-> "idle"]
    /\ snap = [p \in Procs |-> NoAccount]
    /\ checkNow = [p \in Procs |-> 0]
    /\ tokenEndpoint = [p \in Procs |-> FALSE]
    /\ pending = [p \in Procs |-> NoPending]
    /\ result = [p \in Procs |-> NullInt]
    /\ path = [p \in Procs |-> "none"]
    /\ net = [p \in Procs |-> {}]
    /\ wrote = [p \in Procs |-> FALSE]
    /\ responses = <<>>
    /\ lastWrite = 0
    /\ beforeWrite = NoAccount
    /\ callCount = 0

InitToken ==
    /\ env \in Envs
    /\ nowMs = StartMs
    /\ account \in InitialAccounts
    /\ TokenIdle
    /\ JwksIdle
    /\ SsoIdle
    /\ SuggestIdle
    /\ directory = <<>> /\ recipientRows = <<>> /\ memberRows = <<>>
    /\ SsoEmpty
    /\ SyncIdle

NextToken ==
    \/ \E p \in Procs : FindAccount(p)
    \/ \E p \in Procs : CheckExpiry(p)
    \/ \E p \in Procs : \E doc \in {"token_endpoint", "no_token_endpoint", "throws"} :
          DiscoveryDone(p, doc)
    \/ \E p \in Procs : TokenFailed(p)
    \/ \E p \in Procs : \E e \in ExpiresInChoices : \E rot \in BOOLEAN :
          TokenGranted(p, e, rot)
    \/ \E p \in Procs : UpdateCommitted(p)
    \/ \E p \in Procs : UpdateFailed(p)
    \/ \E p \in Procs : Return(p)
    \/ TickSecond

SpecToken == InitToken /\ [][NextToken]_vars

InitJwks ==
    /\ env \in {e \in Envs : e.clientId /\ e.clientSecret}
    /\ nowMs = StartMs
    /\ account = NoAccount
    /\ TokenIdle
    /\ JwksIdle
    /\ SsoIdle
    /\ SuggestIdle
    /\ directory = <<>> /\ recipientRows = <<>> /\ memberRows = <<>>
    /\ SsoEmpty
    /\ SyncIdle

\* concurrent requests, all presenting a token that is in order
NextJwks ==
    \/ \E p \in Procs : ValidateStart(p, GoodToken)
    \/ \E p \in Procs : JwksFetched(p)
    \/ \E p \in Procs : \E how \in {"no_jwks_uri", "throws"} : JwksFetchFailed(p, how)
    \/ \E p \in Procs : \E loaded \in BOOLEAN : VerifyDone(p, loaded)
    \/ \E p \in Procs : ValidateReturn(p)
    \/ \E d \in JwksClockSteps : TickJwks(d)

SpecJwks == InitJwks /\ [][NextJwks]_vars

\* one request at a time, presenting any token
NextVerify ==
    \/ \E tok \in Tokens : ValidateStart(1, tok)
    \/ JwksFetched(1)
    \/ \E how \in {"no_jwks_uri", "throws"} : JwksFetchFailed(1, how)
    \/ \E loaded \in BOOLEAN : VerifyDone(1, loaded)
    \/ ValidateReturn(1)
    \/ \E d \in JwksClockSteps : TickJwks(d)

SpecVerify == InitJwks /\ [][NextVerify]_vars

\* the user table is empty, or holds user 1 (e-mail 1) without or with a
\* linked credential
InitSso ==
    /\ env \in {e \in Envs : e.clientSecret}
    /\ nowMs = StartMs
    /\ account = NoAccount
    /\ TokenIdle
    /\ JwksIdle
    /\ SsoIdle
    /\ SuggestIdle
    /\ directory = <<>> /\ recipientRows = <<>> /\ memberRows = <<>>
    /\ SyncIdle
    /\ sessions = {}
    /\ \/ users = <<>> /\ ssoAccounts = <<>>
       \/ users = <<1>> /\ ssoAccounts = <<>>
       \/ users = <<1>> /\ ssoAccounts = <<[userId |-> 1, sub |-> 1]>>

NextSso ==
    \/ \E p \in Procs : \E tok \in SsoTokens : SsoStart(p, tok)
    \/ \E p \in Procs :
          \E doc \in {"userinfo_endpoint", "no_userinfo_endpoint", "throws"} :
             SsoDiscovered(p, doc)
    \/ \E p \in Procs : SsoUserinfoUnreachable(p)
    \/ \E p \in Procs : SsoUserinfo(p)
    \/ \E p \in Procs : SsoFindUser(p)
    \/ \E p \in Procs : SsoCreateUser(p)
    \/ \E p \in Procs : SsoCreateUserFailed(p)
    \/ \E p \in Procs : SsoFindAccount(p)
    \/ \E p \in Procs : SsoCreateAccount(p)
    \/ \E p \in Procs : SsoAuthorize(p)
    \/ \E p \in Procs : SsoReturn(p)

SpecSso == InitSso /\ [][NextSso]_vars

\* one caller pulls repeatedly against what the provider holds
InitPull ==
    /\ env \in {e \in Envs : e.clientId /\ e.clientSecret}
    /\ nowMs = StartMs
    /\ account = NoAccount
    /\ TokenIdle
    /\ JwksIdle
    /\ SsoIdle
    /\ SuggestIdle
    /\ directory = <<>> /\ recipientRows = <<>> /\ memberRows = <<>>
    /\ SsoEmpty
    /\ PushIdle
    /\ PullIdle
    /\ pullCount = 0
    /\ configs \in InitialConfigs
    /\ orgSettings \in {DefaultSettings, AdminSettings}
    /\ member \in BOOLEAN

NextPull ==
    \/ \E user \in CockpitUsers : \E locale \in Locales :
          \E listOk, meOk, prefsOk, userOk \in BOOLEAN :
             /\ PullStart(user, locale, listOk, meOk, prefsOk, userOk)
             /\ UNCHANGED <<notSyncVars, pushVars, configs>>
    \/ PullNoUser /\ UNCHANGED <<notSyncVars, pushVars, configs>>
    \/ PullFindMember /\ UNCHANGED <<notSyncVars, pushVars, configs>>
    \/ PullFindMemberFailed /\ UNCHANGED <<notSyncVars, pushVars, configs>>
    \/ PullUpdate /\ UNCHANGED <<notSyncVars, pushVars, configs>>
    \/ PullUpdateFailed /\ UNCHANGED <<notSyncVars, pushVars, configs>>
    \/ PullReturn /\ UNCHANGED <<notSyncVars, pushVars, configs>>

SpecPull == InitPull /\ [][NextPull]_vars

\* concurrent pushes against a provider that holds nothing yet, or the
\* parent organisation's record, or that and the child's own
InitPush ==
    /\ env = [wellKnown |-> TRUE, clientId |-> TRUE, clientSecret |-> TRUE]
    /\ nowMs = StartMs
    /\ account = NoAccount
    /\ TokenIdle
    /\ JwksIdle
    /\ SsoIdle
    /\ SuggestIdle
    /\ directory = <<>> /\ recipientRows = <<>> /\ memberRows = <<>>
    /\ SsoEmpty
    /\ PushIdle
    /\ PullIdle
    /\ pullCount = 0
    /\ orgSettings = DefaultSettings
    /\ member = TRUE
    /\ configs \in
         { <<>>,
           <<[id |-> 1, organizationId |-> 1,
              meta |-> [documensoConfig |-> [branding |-> EmptyObject]]]>>,
           <<[id |-> 1, organizationId |-> 1,
              meta |-> [documensoConfig |-> [branding |-> EmptyObject]]],
             [id |-> 2, organizationId |-> 2,
              meta |-> [documensoConfig |-> [branding |-> EmptyObject]]]>> }

NextPush ==
    \/ \E p \in Procs : \E user \in PushUsers : \E settings \in PushSettings :
          PushStart(p, user, settings) /\ UNCHANGED <<notSyncVars, pullVars>>
    \/ \E p \in Procs : \E token \in {"token", "null", "throws"} :
          PushToken(p, token) /\ UNCHANGED <<notSyncVars, pullVars>>
    \/ \E p \in Procs : \E ok \in BOOLEAN :
          PushCurrentUser(p, ok) /\ UNCHANGED <<notSyncVars, pullVars>>
    \/ \E p \in Procs : \E meOk, listOk \in BOOLEAN :
          PushConfigForUpdate(p, meOk, listOk) /\ UNCHANGED <<notSyncVars, pullVars>>
    \/ \E p \in Procs : PushUpsert(p) /\ UNCHANGED <<notSyncVars, pullVars>>
    \/ \E p \in Procs : PushUpsertFailed(p) /\ UNCHANGED <<notSyncVars, pullVars>>
    \/ \E p \in Procs : PushReturn(p) /\ UNCHANGED <<notSyncVars, pullVars>>

SpecPush == InitPush /\ [][NextPush]_vars

\* one caller saves settings, which pushes them, and signs in again later,
\* which pulls; the provider holds nothing at first
InitRoundTrip ==
    /\ env \in {e \in Envs : e.clientId /\ e.clientSecret}
    /\ nowMs = StartMs
    /\ account = NoAccount
    /\ TokenIdle
    /\ JwksIdle
    /\ SsoIdle
    /\ SuggestIdle
    /\ directory = <<>> /\ recipientRows = <<>> /\ memberRows = <<>>
    /\ SsoEmpty
    /\ PushIdle
    /\ PullIdle
    /\ pullCount = 0
    /\ configs = <<>>
    /\ orgSettings \in {DefaultSettings, AdminSettings}
    /\ member = TRUE

NextRoundTrip ==
    \/ \E user \in PushUsers : \E settings \in PushSettings :
          /\ ppc = "idle"
          /\ PushStart(1, user, settings)
          /\ UNCHANGED <<notSyncVars, pullVars>>
    \/ \E token \in {"token", "null", "throws"} :
          PushToken(1, token) /\ UNCHANGED <<notSyncVars, pullVars>>
    \/ \E ok \in BOOLEAN :
          PushCurrentUser(1, ok) /\ UNCHANGED <<notSyncVars, pullVars>>
    \/ \E meOk, listOk \in BOOLEAN :
          PushConfigForUpdate(1, meOk, listOk) /\ UNCHANGED <<notSyncVars, pullVars>>
    \/ PushUpsert(1) /\ UNCHANGED <<notSyncVars, pullVars>>
    \/ PushUpsertFailed(1) /\ UNCHANGED <<notSyncVars, pullVars>>
    \/ PushReturn(1) /\ UNCHANGED <<notSyncVars, pullVars>>
    \/ \E user \in PushUsers : \E locale \in Locales : \E userOk \in BOOLEAN :
             /\ qpc[1] = "idle"
             /\ posts # {}
             /\ PullStart(user, locale, TRUE, TRUE, TRUE, userOk)
             /\ UNCHANGED <<notSyncVars, pushVars, configs>>
    \/ PullNoUser /\ UNCHANGED <<notSyncVars, pushVars, configs>>
    \/ PullFindMember /\ UNCHANGED <<notSyncVars, pushVars, configs>>
    \/ PullFindMemberFailed /\ UNCHANGED <<notSyncVars, pushVars, configs>>
    \/ PullUpdate /\ UNCHANGED <<notSyncVars, pushVars, configs>>
    \/ PullUpdateFailed /\ UNCHANGED <<notSyncVars, pushVars, configs>>
    \/ PullReturn /\ UNCHANGED <<notSyncVars, pushVars, configs>>

SpecRoundTrip == InitRoundTrip /\ [][NextRoundTrip]_vars

\* one client pages through the suggestions of unchanged sources
InitSuggest ==
    /\ env = [wellKnown |-> TRUE, clientId |-> TRUE, clientSecret |-> TRUE]
    /\ nowMs = StartMs
    /\ account = NoAccount
    /\ TokenIdle
    /\ JwksIdle
    /\ SsoIdle
    /\ SsoEmpty
    /\ SyncIdle
    /\ SuggestIdle
    /\ directory \in Directories
    /\ recipientRows \in Histories
    /\ memberRows \in Teams

NextSuggest ==
    \/ \E teamId \in {0, 1} : \E query \in {<<>>, <<" ", "B", " ">>} :
       \E take \in 1..MaxTake :
          SuggestFirstPage(1, teamId, query, take) /\ UNCHANGED notSuggestVars
    \/ SuggestNextPage /\ UNCHANGED notSuggestVars
    \/ \E token \in {"token", "null", "throws"} :
          SuggestToken(token) /\ UNCHANGED notSuggestVars
    \/ SuggestSearch /\ UNCHANGED notSuggestVars
    \/ SuggestSearchFailed /\ UNCHANGED notSuggestVars
    \/ SuggestRecipients /\ UNCHANGED notSuggestVars
    \/ SuggestMembers /\ UNCHANGED notSuggestVars
    \/ SuggestQueryFailed /\ UNCHANGED notSuggestVars
    \/ SuggestReturn /\ UNCHANGED notSuggestVars

SpecSuggest == InitSuggest /\ [][NextSuggest]_vars

(***************************************************************************)
(* Token Lifecycle Manager: properties                                     *)
(***************************************************************************)

\* C1: when a call attempts a refresh and the refresh fails (configuration
\* missing, discovery or token endpoint failing, store write failing), the
\* call has not changed the stored credential and returns the access token
\* it read from the store, not null.
C1_FailedRefreshKeepsCredential ==
    \A p \in Procs :
        (pc[p] = "done" /\ path[p] = "refresh_failed") =>
            /\ ~wrote[p]
            /\ result[p] = snap[p].access_token
            /\ result[p] # NullInt

\* a call whose token-endpoint request was sent and failed has returned,
\* with the credential as it was
C1_Witness ==
    \E p \in Procs :
        /\ pc[p] = "done" /\ path[p] = "refresh_failed"
        /\ "token" \in net[p]
        /\ account = snap[p]
        /\ result[p] = account.access_token

\* C2: a call that finds expiresAt - 300 > now sends no network request,
\* does not change the stored credential and returns the stored access token.
C2_FreshTokenFastPath ==
    \A p \in Procs :
        (/\ pc[p] = "done"
         /\ HasAccessToken(snap[p])
         /\ snap[p].expires_at # NullInt
         /\ snap[p].expires_at - 300 > checkNow[p]) =>
            /\ net[p] = {}
            /\ ~wrote[p]
            /\ result[p] = snap[p].access_token

\* a call has returned for a credential that has a refresh token and is
\* still outside the buffer
C2_Witness ==
    \E p \in Procs :
        /\ pc[p] = "done"
        /\ snap[p].refresh_token # NullInt
        /\ snap[p].expires_at - 300 > checkNow[p]
        /\ result[p] = snap[p].access_token
        /\ account = snap[p]

\* C3: the stored expiresAt never decreases, whatever the interleaving of
\* the calls.
C3_ExpiresAtNeverDecreases ==
    [][ExpiresAtOrZero(account'.expires_at) >= ExpiresAtOrZero(account.expires_at)]_vars

\* C4 (as claimed): after concurrent successful refreshes the stored access
\* token, expiry and refresh token all belong to the response persisted last
\* (the refresh token may also be the one the credential had before any
\* refresh, when that response carried none).
C4_AllFieldsOfOneResponse ==
    lastWrite > 0 =>
        LET r == responses[lastWrite]
        IN /\ account.access_token = r.access_token
           /\ account.expires_at = r.expires_at
           /\ account.refresh_token = (IF r.refresh_token # NullInt
                                       THEN r.refresh_token ELSE 0)

\* C4 (amended): the stored access token and expiry always both belong to
\* the response persisted last; the stored refresh token is that response's
\* when it carried one, and otherwise the one that was stored before that
\* write, which may come from an earlier response.
C4_LastWriteConsistent ==
    lastWrite > 0 =>
        LET r == responses[lastWrite]
        IN /\ account.access_token = r.access_token
           /\ account.expires_at = r.expires_at
           /\ account.refresh_token = (IF r.refresh_token # NullInt
                                       THEN r.refresh_token
                                       ELSE beforeWrite.refresh_token)

\* two concurrent refreshes were persisted in the reverse order of their
\* responses
C4_Witness ==
    /\ Len(responses) = 2
    /\ lastWrite = 1
    /\ beforeWrite.access_token = 2
    /\ account.access_token = 1

\* C5: a successful refresh persists, in one write, the new access token and
\* the new expiry, replaces the refresh token exactly when the response
\* carries one, and returns the new access token, which is the stored one.
C5_SuccessfulRefreshPersists ==
    [][\A p \in Procs :
          (pc[p] = "update" /\ pc'[p] = "done" /\ path'[p] = "refreshed") =>
              /\ account'.id = account.id
              /\ account'.access_token = pending[p].access_token
              /\ account'.expires_at = pending[p].expires_at
              /\ (pending[p].refresh_token # NullInt
                    => account'.refresh_token = pending[p].refresh_token)
              /\ (pending[p].refresh_token = NullInt
                    => account'.refresh_token = account.refresh_token)
              /\ result'[p] = pending[p].access_token
              /\ result'[p] = account'.access_token]_vars

\* a refresh without rotation has been persisted and returned: the old
\* refresh token is still stored
C5_Witness ==
    \E p \in Procs :
        /\ pc[p] = "done" /\ path[p] = "refreshed"
        /\ pending[p].refresh_token = NullInt
        /\ account.refresh_token = snap[p].refresh_token
        /\ account.access_token = result[p]
        /\ account.expires_at = pending[p].expires_at

\* C6 (as claimed): the token endpoint is called if and only if the stored
\* credential has expiresAt > 0, expiresAt - 300 < now and a refresh token;
\* otherwise no network request is sent, the credential is left alone and
\* the stored access token is returned.
C6_TokenEndpointIffNearExpiry ==
    \A p \in Procs :
        (pc[p] = "done" /\ HasAccessToken(snap[p])) =>
            LET e == IF snap[p].expires_at = NullInt THEN 0 ELSE snap[p].expires_at
                near == e > 0 /\ e - 300 < checkNow[p] /\ snap[p].refresh_token # NullInt
            IN /\ ("token" \in net[p]) <=> near
               /\ ~near => /\ net[p] = {}
                           /\ ~wrote[p]
                           /\ result[p] = snap[p].access_token

\* C6 (amended): a refresh is attempted if and only if the stored credential
\* has expiresAt > 0, expiresAt - 300 < now and a refresh token; the attempt
\* fetches the discovery document when the well-known URL is configured and
\* calls the token endpoint only when, in addition, client id, client secret
\* and the document's token_endpoint are all present. In every other case
\* with a stored credential no network request is sent, the credential is
\* left alone and the stored access token is returned.
C6_RefreshAttemptIffNearExpiry ==
    \A p \in Procs :
        (pc[p] = "done" /\ HasAccessToken(snap[p])) =>
            LET e == IF snap[p].expires_at = NullInt THEN 0 ELSE snap[p].expires_at
                near == e > 0 /\ e - 300 < checkNow[p] /\ snap[p].refresh_token # NullInt
            IN /\ (path[p] \in {"refreshed", "refresh_failed"}) <=> near
               /\ ("discovery" \in net[p]) <=> (near /\ env.wellKnown)
               /\ ("token" \in net[p]) <=>
                     (near /\ env.wellKnown /\ env.clientId /\ env.clientSecret
                           /\ tokenEndpoint[p])
               /\ ~near => /\ net[p] = {}
                           /\ ~wrote[p]
                           /\ result[p] = snap[p].access_token
                           /\ result[p] # NullInt

\* a call has returned for a credential with a refresh token whose expiry
\* lies exactly on the buffer boundary: nothing was sent
C6_Witness ==
    \E p \in Procs :
        /\ pc[p] = "done"
        /\ snap[p].refresh_token # NullInt
        /\ snap[p].expires_at - 300 = checkNow[p]
        /\ net[p] = {}
        /\ result[p] = snap[p].access_token

(***************************************************************************)
(* Key Set Cache and JWT Verifier: properties                              *)
(***************************************************************************)

\* C7: a getJwks call made while a key set is cached returns a key set, the
\* cached one however old, also when its refresh fetch fails; null is
\* returned only when nothing has been cached.
C7_StaleKeySetServedOnFailure ==
    \A p \in Procs :
        (gj[p].called /\ vpc[p] \in {"verify", "done"} /\ gj[p].cachedAtCall # 0)
            => jwks[p] # 0

\* C8: getJwks fetches the discovery document only when nothing is cached or
\* the cached entry is at least one hour old, and then it always does; a
\* call made while the cached entry is younger than one hour returns that
\* entry without a fetch and without changing the cache.
C8_FetchOnlyWhenStale ==
    \A p \in Procs :
        gj[p].called =>
            LET young == /\ gj[p].cachedAtCall # 0
                         /\ gj[p].nowAtCall - gj[p].lastAtCall < 3600000
            IN /\ young => /\ ~gj[p].fetched
                           /\ vpc[p] # "fetch"
                           /\ jwks[p] = gj[p].cachedAtCall
                           /\ gj[p].cachedAtReturn = gj[p].cachedAtCall
                           /\ gj[p].lastAtReturn = gj[p].lastAtCall
               /\ (~young /\ env.wellKnown) => gj[p].fetched
               /\ gj[p].fetched => ~young

\* a call found an entry one millisecond short of one hour old and was
\* served from the cache
C8_Witness ==
    \E p \in Procs :
        /\ gj[p].called
        /\ gj[p].cachedAtCall # 0
        /\ gj[p].nowAtCall - gj[p].lastAtCall = 3600000 - 1
        /\ ~gj[p].fetched
        /\ jwks[p] = gj[p].cachedAtCall

\* C9: a reader that calls getJwks while another caller's fetch is in flight
\* and a previous key set is cached obtains that key set without a fetch of
\* its own.
C9_ReaderServedDuringRefresh ==
    \A p \in Procs :
        (gj[p].called /\ gj[p].refreshInFlight /\ gj[p].cachedAtCall # 0) =>
            /\ ~gj[p].fetched
            /\ vpc[p] # "fetch"
            /\ jwks[p] = gj[p].cachedAtCall

\* C10: validateAuthentikJwt never throws, and returns null when no key set
\* is available, the keys cannot be loaded, the token is malformed, signed
\* by a key outside the key set or expired, or its email claim is missing,
\* empty or not a string.
C10_ValidateNeverThrows ==
    \A p \in Procs :
        vpc[p] = "done" =>
            /\ vresult[p].kind \in {"null", "payload"}
            /\ (\/ jwks[p] = 0
                \/ ~keysOk[p]
                \/ ~vtoken[p].wellformed
                \/ vtoken[p].kid \notin ProviderKeys
                \/ (vtoken[p].exp # NullInt /\ vtoken[p].exp <= verifyNow[p])
                \/ vtoken[p].email \in {"<undefined>", "<number>", ""})
                  => vresult[p].kind = "null"

\* a token that expired while the process was running has been rejected
\* against a loaded key set
C10_Witness ==
    \E p \in Procs :
        /\ vpc[p] = "done"
        /\ jwks[p] # 0 /\ keysOk[p]
        /\ vtoken[p] = GoodToken
        /\ vtoken[p].exp <= verifyNow[p]
        /\ vresult[p].kind = "null"

\* C11: every token validateAuthentikJwt accepts yields claims whose email
\* is non-empty and syntactically an e-mail address.
C11_AcceptedEmailIsValid ==
    \A p \in Procs :
        (vpc[p] = "done" /\ vresult[p].kind = "payload") =>
            /\ vresult[p].email # ""
            /\ vresult[p].email \in {"a@x.com"}

(***************************************************************************)
(* SSO token route: properties                                             *)
(***************************************************************************)

\* C12: a session exists only for a token the provider accepted; a request
\* whose token the provider rejects ends with UNAUTHORIZED and has changed
\* no user, credential or session.
C12_SessionOnlyForAcceptedToken ==
    /\ \A s \in sessions : s.valid
    /\ \A p \in Procs :
          (spc[p] # "idle" /\ ~stok[p].ok) =>
              /\ ~schanged[p]
              /\ (spc[p] = "done"
                     /\ soutcome[p] \notin {"NOT_SETUP", "DISCOVERY_ERROR", "FETCH_ERROR"})
                    => soutcome[p] = "UNAUTHORIZED"

\* the provider has rejected a token while a user with a session exists:
\* the request ended with UNAUTHORIZED and left everything alone
C12_Witness ==
    \E p \in Procs :
        /\ spc[p] = "done" /\ ~stok[p].ok
        /\ soutcome[p] = "UNAUTHORIZED"
        /\ ~schanged[p]
        /\ sessions # {}

\* C13: whatever the interleaving of /token requests, no user has more than
\* one 'oidc' credential row.
C13_OneCredentialPerUser ==
    \A i, j \in 1..Len(ssoAccounts) :
        ssoAccounts[i].userId = ssoAccounts[j].userId => i = j

\* two concurrent requests for the same existing user both found no
\* credential; one created it, the other's create was refused
C13_Witness ==
    \E p, q \in Procs :
        /\ p # q
        /\ spc[p] = "done" /\ soutcome[p] = "STORE_ERROR" /\ suser[p] # 0
        /\ suser[q] = suser[p] /\ schanged[q]
        /\ HasLinkedAccount(ssoAccounts, suser[p])

(***************************************************************************)
(* Pull synchronisation: properties                                        *)
(***************************************************************************)

\* C14: a finished pull has left every local settings field that was set
\* (non-null) before the call exactly as it was; only the fields of the
\* branding logo default may differ.
C14_PullNeverOverwritesSetField ==
    ppc = "done" =>
        \A k \in DOMAIN pre \ {"brandingLogo", "brandingEnabled"} :
            LET wasSet == IF k \in {"brandingCompanyDetails", "documentLanguage",
                                    "documentTimezone", "documentDateFormat",
                                    "documentVisibility", "emailReplyTo"}
                          THEN pre[k] \notin {"", NullStr}
                          ELSE TRUE
            IN wasSet => orgSettings[k] = pre[k]

\* C15: when updateData together with the current row would leave typed,
\* uploaded and drawn signatures all disabled, and the update does not
\* throw, the pull returns true, the three signature fields are as before the
\* call, and every other field of updateData has been written.
C15_AllDisabledKeepsSignatureFields ==
    ( /\ ppc = "done"
      /\ pdiff # NoData
      /\ "update" \notin pfailed
      /\ \A k \in SignatureKeys : ~Final(pdiff, pre, k) )
    => /\ presult = "true"
       /\ \A k \in SignatureKeys : orgSettings[k] = pre[k]
       /\ \A k \in DOMAIN pdiff \ SignatureKeys : orgSettings[k] = pdiff[k]

\* the remote config switches a signature type off, which would leave none;
\* the pull wrote the other fields and kept the signature fields
C15_Witness ==
    /\ ppc = "done"
    /\ presult = "true"
    /\ pdiff # NoData
    /\ \A k \in SignatureKeys : ~Final(pdiff, pre, k)
    /\ \E k \in SignatureKeys : Has(pdiff, k) /\ pdiff[k] # pre[k]
    /\ \E k \in DOMAIN pdiff \ SignatureKeys : orgSettings[k] # pre[k]

\* C16: a pull during which the profile was missing, the membership was
\* missing or any step failed returns false and leaves the settings row as it
\* was; any other pull applies its whole diff in at most one update.
C16_PullAllOrNothing ==
    ppc = "done" =>
        /\ presult \in {"true", "false"}
        /\ (puser = NoUser \/ ~member \/ pfailed # {}) =>
               (presult = "false" /\ orgSettings = pre)
        /\ pupdates <= 1
        /\ presult = "true" =>
               orgSettings = UpdatedSettings(pre, IF pdata = NoData
                                                  THEN EmptyObject ELSE pdata)

(***************************************************************************)
(* Push synchronisation: properties                                        *)
(***************************************************************************)

\* C17: every body sent to the provider carries the branding section; sent
\* for a member of an organisation that has a parent it carries nothing
\* else, sent for a member of a root organisation it carries the document
\* defaults, signature, certificate and e-mail sections as well.
C17_PayloadScopedByRole ==
    \A r \in posts :
        LET sections == DOMAIN r.body.meta.documensoConfig IN
        /\ "branding" \in sections
        /\ r.parentId # 0 => sections = {"branding"}
        /\ r.parentId = 0 =>
              sections = {"branding", "documentDefaults", "signatureSettings",
                          "certificateSettings", "emailSettings"}

\* both a child organisation's member and a root organisation's member
\* have pushed
C17_Witness ==
    /\ \E r \in posts : r.parentId # 0
    /\ \E r \in posts : r.parentId = 0 /\ Has(r.body.meta.documensoConfig.emailSettings, "replyToEmail")

\* C18: a body that carries an id names a record of the sender's own
\* organisation, and a push that sees no record of its own organisation
\* sends its body without an id.
C18_UpdatesOnlyOwnRecord ==
    /\ \A r \in posts :
          Has(r.body, "id") =>
             \E i \in 1..Len(configs) :
                /\ configs[i].id = r.body.id
                /\ configs[i].organizationId = r.orgId
    /\ \A p \in Procs :
          ( /\ qpc[p] = "upsert"
            /\ \A i \in 1..Len(configs) :
                  configs[i].organizationId # quser[p].orgId )
          => qexisting[p] = 0

\* a child organisation's member who could see only the parent's record
\* has created a record of its own, and a later push has updated a record by
\* id
C18_Witness ==
    /\ \E r \in posts : r.orgId = 2 /\ ~Has(r.body, "id")
    /\ \E r \in posts : r.orgId = 2 /\ Has(r.body, "id")
    /\ \E i \in 1..Len(configs) : configs[i].organizationId = 1

\* C19: the provider never holds two settings records of one organisation.
C19_OneRecordPerOrganisation ==
    \A i, j \in 1..Len(configs) :
        configs[i].organizationId = configs[j].organizationId => i = j

\* C20: a finished push has returned true or false; it returned false if no
\* token was resolvable, the profile could not be fetched or the write
\* failed; it returned true only after a write the provider answered; and a
\* push without token or profile sent nothing.
C20_PushReturnsBoolean ==
    \A p \in Procs :
        /\ qpc[p] = "done" => qresult[p] \in {"true", "false"}
        /\ (qpc[p] = "done" /\ qfailed[p] \cap {"token", "profile", "write"} # {})
              => qresult[p] = "false"
        /\ (qpc[p] = "done" /\ qresult[p] = "true")
              => (qsent[p] = 1 /\ "write" \notin qfailed[p])
        /\ qfailed[p] \cap {"token", "profile"} # {} => qsent[p] = 0

\* one push ended without a token and sent nothing, another sent its body
\* and the provider refused it
C20_Witness ==
    \E p, q \in Procs :
        /\ qpc[p] = "done" /\ "token" \in qfailed[p] /\ qsent[p] = 0
        /\ qresult[p] = "false"
        /\ qpc[q] = "done" /\ "write" \in qfailed[q] /\ qsent[q] = 1
        /\ qresult[q] = "false"

(***************************************************************************)
(* Push then pull, branding defaults, missing user information             *)
(***************************************************************************)

\* C27: a pull that has read a record a push stored finds in it the document
\* default, signature, certificate and reply-to values the push put there:
\* each of them is in the pull's updateData under its local name.
C27_PullReadsWhatPushStored ==
    ( /\ ppc = "done"
      /\ presult = "true"
      /\ pfailed = {}
      /\ Has(pmeta, "documensoConfig") )
    => LET stored == pmeta.documensoConfig
           doc == Section(stored, "documentDefaults")
           sig == Section(stored, "signatureSettings")
           cert == Section(stored, "certificateSettings")
           mail == Section(stored, "emailSettings")
       IN /\ Has(doc, "timezone") =>
                (Has(pdiff, "documentTimezone")
                   /\ pdiff.documentTimezone = doc.timezone)
          /\ Has(sig, "typedSignatureEnabled") =>
                (Has(pdiff, "typedSignatureEnabled")
                   /\ pdiff.typedSignatureEnabled = sig.typedSignatureEnabled)
          /\ Has(cert, "includeAuditLog") =>
                (Has(pdiff, "includeAuditLog")
                   /\ pdiff.includeAuditLog = cert.includeAuditLog)
          /\ Has(mail, "replyToEmail") =>
                (Has(pdiff, "emailReplyTo")
                   /\ pdiff.emailReplyTo = mail.replyToEmail)

\* C28: a finished pull has changed brandingLogo only from empty to the
\* organisation's logo, and then brandingEnabled is true; it has changed
\* brandingEnabled only in that case; it has changed brandingCompanyDetails
\* only from empty to the organisation's name.  A logo that was set stays,
\* and nothing of the config record's branding section is copied.
C28_BrandingOnlyFromOrganisationDefaults ==
    ppc = "done" =>
        /\ orgSettings.brandingLogo # pre.brandingLogo =>
              /\ pre.brandingLogo \in {"", NullStr}
              /\ puser.logo \notin {"", NullStr, UndefinedStr}
              /\ orgSettings.brandingLogo = puser.logo
              /\ orgSettings.brandingEnabled
        /\ orgSettings.brandingEnabled # pre.brandingEnabled =>
              orgSettings.brandingLogo # pre.brandingLogo
        /\ orgSettings.brandingCompanyDetails # pre.brandingCompanyDetails =>
              /\ pre.brandingCompanyDetails \in {"", NullStr}
              /\ orgSettings.brandingCompanyDetails = puser.name

\* the row had no logo, the organisation has one, and the config record
\* carries a branding section of its own: the pull took the organisation's
\* logo and switched branding on
C28_Witness ==
    /\ ppc = "done"
    /\ presult = "true"
    /\ pre.brandingLogo = ""
    /\ ~pre.brandingEnabled
    /\ orgSettings.brandingLogo = puser.logo
    /\ orgSettings.brandingEnabled
    /\ Has(pmeta, "branding")
    /\ pmeta.branding.logo # orgSettings.brandingLogo

\* C29: a request whose userinfo response lacks the email or the subject
\* ends with INVALID_REQUEST and has changed no user, credential or session,
\* whether or not the response carries a name or a preferred_username.
C29_MissingClaimsAreInvalidRequest ==
    \A p \in Procs :
        ( /\ spc[p] = "done"
          /\ stok[p].ok
          /\ stok[p].email = 0 \/ stok[p].sub = 0
          /\ soutcome[p] \notin {"NOT_SETUP", "DISCOVERY_ERROR", "FETCH_ERROR"} )
        => /\ soutcome[p] = "INVALID_REQUEST"
           /\ ~schanged[p]

\* C21: the suggestions getRecipientSuggestions returns never hold two
\* entries whose emails are equal once lower-cased, and neither does the
\* merged list they are cut from.
C21_NoDuplicateEmails ==
    (gpc = "done" /\ ~IsThrown(gresult)) =>
        LET lower(e) == [k \in DOMAIN e |-> LowerChar(e[k])]
            distinct(list) ==
                \A i, j \in DOMAIN list :
                    lower(list[i].email) = lower(list[j].email) => i = j
        IN /\ distinct(allSuggestions)
           /\ distinct(gresult.suggestions)

\* C21 witness: the directory gave A@x.de, the history gave a@x.de, and the
\* call returned the first of them
C21_Witness ==
    /\ gpc = "done"
    /\ ~IsThrown(gresult)
    /\ \E i \in DOMAIN cockpitSuggestions : cockpitSuggestions[i].email = Mail("A")
    /\ \E i \in DOMAIN recipients : recipients[i].email = Mail("a")
    /\ \E i \in DOMAIN gresult.suggestions : gresult.suggestions[i].email = Mail("A")

\* C22: the merged list is the directory's entries, then the history's, then
\* the team's, each in the order its source returned them, with every valid
\* entry kept whose lower-cased email has not occurred earlier in that
\* sequence; so of two entries with one email the directory's stands before
\* the history's and the history's before the team's, and the first is kept.
C22_MergeInPriorityOrder ==
    (gpc = "done" /\ ~IsThrown(gresult)) =>
        LET lower(e) == [k \in DOMAIN e |-> LowerChar(e[k])]
            local(rows) == [i \in DOMAIN rows |->
                               [name |-> rows[i].name, email |-> rows[i].email]]
            sources == cockpitSuggestions \o local(recipients) \o local(teamMembers)
            kept == {i \in DOMAIN sources :
                        /\ isValidEmail(sources[i].email)
                        /\ \A j \in 1..(i - 1) :
                              lower(sources[j].email) # lower(sources[i].email)}
            rank(i) == Cardinality({k \in kept : k <= i})
        IN /\ Len(allSuggestions) = Cardinality(kept)
           /\ \A i \in kept : allSuggestions[rank(i)] = sources[i]

\* C22 witness: the directory returned A@x.de, the history a@x.de and c@x.de;
\* the merged list begins with the directory's A@x.de, with its avatar, and
\* holds the history's c@x.de after it
C22_Witness ==
    /\ gpc = "done"
    /\ ~IsThrown(gresult)
    /\ cockpitSuggestions # <<>>
    /\ cockpitSuggestions[1].email = Mail("A")
    /\ \E i \in DOMAIN recipients : recipients[i].email = Mail("a")
    /\ allSuggestions[1] = cockpitSuggestions[1]
    /\ "avatarUrl" \in DOMAIN allSuggestions[1]
    /\ \E i \in DOMAIN allSuggestions :
          /\ i > 1
          /\ allSuggestions[i].email = Mail("c")
          /\ "avatarUrl" \notin DOMAIN allSuggestions[i]

\* C24: the response of a call that did not fail carries exactly the entries
\* skip+1 .. skip+take of the merged list, as many of them as exist;
\* hasMore is true exactly when the merged list is longer than skip+take;
\* and the next cursor is skip+take whatever the list holds.
C24_PageIsSliceOfMergedList ==
    (gpc = "idle" /\ gresponse # NoSuggestions /\ ~IsThrown(gresponse)) =>
        LET skip == gcall.skip
            take == gcall.take
            rest == IF Len(allSuggestions) > skip THEN Len(allSuggestions) - skip ELSE 0
        IN /\ Len(gresponse.results) = IF rest < take THEN rest ELSE take
           /\ \A i \in DOMAIN gresponse.results :
                 gresponse.results[i] = allSuggestions[skip + i]
           /\ gresponse.hasMore = (Len(allSuggestions) > skip + take)
           /\ gresponse.nextCursor = skip + take
           /\ gresult.nextSkip = skip + take

\* C24 witness: a second page that ends exactly where the merged list ends
C24_Witness ==
    /\ gpc = "idle"
    /\ gresponse # NoSuggestions
    /\ ~IsThrown(gresponse)
    /\ gcall.skip > 0
    /\ gresponse.results # <<>>
    /\ Len(allSuggestions) = gcall.skip + gcall.take
    /\ ~gresponse.hasMore

\* C25: when the caller has no provider token, or resolving it fails, or the
\* directory search fails, the call does not fail for that reason: unless one
\* of its own two queries fails, it returns exactly what the history and the
\* team give with an empty directory list.
C25_RemoteIsBestEffort ==
    ( /\ gpc = "done"
      /\ gremote # "ok"
      /\ ~(IsThrown(gresult) /\ gresult.thrown \in {"recipients", "members"}) )
    => LET skip == gcall.skip
           take == gcall.take
           local(rows) == [i \in DOMAIN rows |-> LocalSuggestion(rows[i])]
           history == MergeSuggestions(
                          [seen |-> {}, all |-> <<>>],
                          local(FindRecipients(recipientRows, trim(gcall.query),
                                               take + skip + 10)))
           merged == IF Len(history.all) < skip + take /\ gcall.teamId # 0
                     THEN MergeSuggestions(
                              history,
                              local(FindTeamMembers(memberRows, trim(gcall.query),
                                                    gcall.userId, take + skip)))
                     ELSE history
       IN /\ cockpitSuggestions = <<>>
          /\ gresult = SuggestionsResult(merged.all, skip, take)

\* C25 witness: the directory holds users the search would have returned, the
\* request for them failed, and the call returned suggestions
C25_Witness ==
    /\ gpc = "done"
    /\ gremote = "failed"
    /\ searchUsers(directory, trim(gcall.query), gcall.take + gcall.skip + 1) # <<>>
    /\ ~IsThrown(gresult)
    /\ gresult.suggestions # <<>>

\* C26: every email of the merged list, and so of the returned page, has the
\* syntax of an address; a fetched record whose email has not is in no
\* position of the list, is not counted by hasMore, and has left nothing in
\* the set of seen emails.
C26_OnlyValidEmails ==
    (gpc = "done" /\ ~IsThrown(gresult)) =>
        LET lower(e) == [k \in DOMAIN e |-> LowerChar(e[k])]
            valid(e) ==
                /\ Cardinality({i \in DOMAIN e : e[i] = "@"}) = 1
                /\ LET Letters == {"a", "b", "c", "d", "e", "x", "A", "B"}
                       at == CHOOSE i \in DOMAIN e : e[i] = "@"
                       dots == {i \in (at + 1)..Len(e) : e[i] = "."}
                   IN /\ at > 1
                      /\ at < Len(e)
                      /\ \A i \in DOMAIN e : e[i] \in Letters \cup {".", "@"}
                      /\ e[1] # "."
                      /\ e[at - 1] # "."
                      /\ e[at + 1] # "."
                      /\ \A i \in 1..(Len(e) - 1) : ~(e[i] = "." /\ e[i + 1] = ".")
                      /\ dots # {}
                      /\ \A d \in dots : d <= Len(e) - 2
            fetched == {cockpitSuggestions[i].email : i \in DOMAIN cockpitSuggestions}
                          \cup {recipients[i].email : i \in DOMAIN recipients}
                          \cup {teamMembers[i].email : i \in DOMAIN teamMembers}
            good == {lower(e) : e \in {f \in fetched : valid(f)}}
        IN /\ \A i \in DOMAIN allSuggestions : valid(allSuggestions[i].email)
           /\ \A i \in DOMAIN gresult.suggestions : valid(gresult.suggestions[i].email)
           /\ seenEmails = good
           /\ Len(allSuggestions) = Cardinality(good)
           /\ gresult.hasMore = (Cardinality(good) > gcall.skip + gcall.take)

\* C26 witness: the directory's first record has no address for an email and
\* the page begins with the first record that has one
C26_Witness ==
    /\ gpc = "done"
    /\ ~IsThrown(gresult)
    /\ cockpitSuggestions # <<>>
    /\ cockpitSuggestions[1].email = <<"b", "a", "d">>
    /\ gresult.suggestions # <<>>
    /\ gresult.suggestions[1].email = Mail("a")

\* C23: when the sources of a call, unchanged and equally reachable for both
\* calls, hold at least 2*take distinct valid emails that match the query,
\* the page at skip 0 and the page at skip take share no email and the first
\* of them has hasMore true.
C23_FirstTwoPagesDisjoint ==
    ( /\ gpc = "idle"
      /\ Len(pages) = 2
      /\ pages[1].skip = 0
      /\ pages[2].skip = gcall.take
      /\ pages[1].remote = pages[2].remote
      /\ LET lower(e) == [k \in DOMAIN e |-> LowerChar(e[k])]
             q == trim(gcall.query)
             remote == IF pages[1].remote = "ok"
                       THEN {v.email : v \in {u \in {directory[i] : i \in DOMAIN directory} :
                                                searchUsers(<<u>>, q, 1) # <<>>}}
                       ELSE {}
             history == {r.email : r \in {x \in {recipientRows[i] : i \in DOMAIN recipientRows} :
                                             x.email # <<>> /\ nameEmailFilter(x, q)}}
             team == IF gcall.teamId # 0
                     THEN {m.email : m \in {x \in {memberRows[i] : i \in DOMAIN memberRows} :
                                               x.id # gcall.userId /\ nameEmailFilter(x, q)}}
                     ELSE {}
         IN Cardinality({lower(e) : e \in {f \in remote \cup history \cup team :
                                              isValidEmail(f)}}) >= 2 * gcall.take )
    => /\ pages[1].emails \cap pages[2].emails = {}
       /\ pages[1].hasMore

\* C30: when the page just returned has hasMore false, and every page since
\* skip 0 reached the directory alike, each valid email of the directory, the
\* history and the team that matches the query is on one of the pages
\* returned since skip 0.
C30_PaginationIsComplete ==
    ( /\ gpc = "idle"
      /\ pages # <<>>
      /\ ~pages[Len(pages)].hasMore
      /\ \A i \in DOMAIN pages : pages[i].remote = pages[1].remote )
    => LET lower(e) == [k \in DOMAIN e |-> LowerChar(e[k])]
           q == trim(gcall.query)
           remote == IF pages[1].remote = "ok"
                     THEN {v.email : v \in {u \in {directory[i] : i \in DOMAIN directory} :
                                              searchUsers(<<u>>, q, 1) # <<>>}}
                     ELSE {}
           history == {r.email : r \in {x \in {recipientRows[i] : i \in DOMAIN recipientRows} :
                                           x.email # <<>> /\ nameEmailFilter(x, q)}}
           team == IF gcall.teamId # 0
                   THEN {m.email : m \in {x \in {memberRows[i] : i \in DOMAIN memberRows} :
                                             x.id # gcall.userId /\ nameEmailFilter(x, q)}}
                   ELSE {}
       IN \A e \in remote \cup history \cup team :
             isValidEmail(e) => lower(e) \in UNION {pages[i].emails : i \in DOMAIN pages}

====
